---------------------------- MODULE Spec2Model ----------------------------
(***************************************************************************)
(* Model of the newsletter builder (src/app.py): the HTML generation       *)
(* engine NewsletterGenerator and the part of main() that validates layer  *)
(* orders, sorts the layers and stores the generated document.             *)
(*                                                                         *)
(* Python values are records [ty, v]: a str carries its characters as a    *)
(* sequence of one-character strings, None and a missing dict key are      *)
(* values of their own.  A dict is a function from its (fixed) key set to  *)
(* such values, a key the dict does not hold mapping to Missing.           *)
(* html_parts, a Python list of strings, is a sequence of tokens: one      *)
(* token per appended string, naming the element, whether the string       *)
(* opens, closes or wholly contains it, the role of the string in the      *)
(* fragment, and the value interpolated into it (src, href or text).       *)
(* Colours, font sizes and weights are interpolated verbatim into style    *)
(* attributes and decide no branch; tokens do not carry them.              *)
(***************************************************************************)
EXTENDS Integers, Sequences, FiniteSets, TLC

VARIABLES
    pc,               \* "idle", or "called" after a call of the engine
    call,             \* the operation called and its arguments
    ret,              \* what the call returned (or the exception it raised)
    session_state,    \* st.session_state: the form values and the stored document
    run,              \* what the last script run of main() did
    mongo,            \* the MongoDB server: the templates collection and its index
    manager,          \* the MongoManager singleton (_mongo_manager)
    store_call        \* the last call of a MongoManager method and its result

vars == <<pc, call, ret, session_state, run, mongo, manager, store_call>>

(***************************************************************************)
(* Python values                                                           *)
(***************************************************************************)
PyStr(s) == [ty |-> "str", v |-> s]
PyInt(n) == [ty |-> "int", v |-> <<n>>]
None == [ty |-> "NoneType", v |-> <<>>]
Missing == [ty |-> "missing", v |-> <<>>]
PyTrue == [ty |-> "bool", v |-> <<1>>]
PyFalse == [ty |-> "bool", v |-> <<0>>]

\* bool(x)
Truthy(x) ==
    CASE x.ty = "str" -> x.v # <<>>
      [] x.ty = "int" -> x.v[1] # 0
      [] x.ty = "bool" -> x.v[1] # 0
      [] OTHER -> FALSE

\* d.get(key, default)
Get(d, key, default) == IF d[key] = Missing THEN default ELSE d[key]

\* bool(d) of a dict: an empty dict is falsy
DictTruthy(d) == \E k \in DOMAIN d : d[k] # Missing

(***************************************************************************)
(* str methods                                                             *)
(***************************************************************************)
Whitespace == {" ", "\n", "\t"}

RECURSIVE lstrip(_)
lstrip(s) ==
    IF s = <<>> THEN <<>>
    ELSE IF Head(s) \in Whitespace THEN lstrip(Tail(s)) ELSE s

RECURSIVE rstrip(_)
rstrip(s) ==
    IF s = <<>> THEN <<>>
    ELSE IF s[Len(s)] \in Whitespace THEN rstrip(SubSeq(s, 1, Len(s) - 1)) ELSE s

\* str.strip()
strip(s) == rstrip(lstrip(s))

LowerChar(c) ==
    CASE c = "L" -> "l" [] c = "E" -> "e" [] c = "F" -> "f" [] c = "T" -> "t"
      [] c = "R" -> "r" [] c = "I" -> "i" [] c = "G" -> "g" [] c = "H" -> "h"
      [] c = "C" -> "c" [] c = "N" -> "n"
      [] OTHER -> c

\* str.lower()
lower(s) == [i \in DOMAIN s |-> LowerChar(s[i])]

\* sub in s, for a one-character sub
Contains(s, c) == \E i \in DOMAIN s : s[i] = c

RECURSIVE StartsWith(_, _)
StartsWith(s, p) ==
    IF p = <<>> THEN TRUE
    ELSE IF s = <<>> THEN FALSE
    ELSE Head(s) = Head(p) /\ StartsWith(Tail(s), Tail(p))

\* s.replace(old, new, 1): only the first occurrence
replace_FirstOnly(s, old, new) ==
    LET hits == {i \in 1..(Len(s) - Len(old) + 1) : SubSeq(s, i, i + Len(old) - 1) = old}
    IN  IF hits = {} THEN s
        ELSE LET i == CHOOSE h \in hits : \A k \in hits : h <= k
             IN  SubSeq(s, 1, i - 1) \o new \o SubSeq(s, i + Len(old), Len(s))

\* str.replace(old, new), old non-empty: leftmost non-overlapping occurrences
RECURSIVE replace(_, _, _)
replace(s, old, new) ==
    IF s = <<>> THEN <<>>
    ELSE IF StartsWith(s, old)
         THEN new \o replace(SubSeq(s, Len(old) + 1, Len(s)), old, new)
         ELSE <<Head(s)>> \o replace(Tail(s), old, new)

\* old in s
HasSubstring(s, old) ==
    \E i \in 1..(Len(s) - Len(old) + 1) : SubSeq(s, i, i + Len(old) - 1) = old

(***************************************************************************)
(* Tokens of html_parts and results of the engine's functions              *)
(***************************************************************************)
Tok(el, ty, role, val) == [el |-> el, ty |-> ty, role |-> role, val |-> val]
Open(el, role) == Tok(el, "open", role, <<>>)
OpenV(el, role, val) == Tok(el, "open", role, val)
Close(el) == Tok(el, "close", "", <<>>)

\* a function returns its list of parts, or raises
Ok(parts) == [exc |-> "none", parts |-> parts]
Raise(e) == [exc |-> e, parts |-> <<>>]

BR == <<"<", "b", "r", ">">>
NL == <<"\n">>

(***************************************************************************)
(* NewsletterGenerator._generate_layer_text                                *)
(***************************************************************************)
\* One token per appended string; a heading or paragraph is a single string
\* holding its text.  HTML content is three strings: <div>, the content
\* verbatim, </div>.
_generate_layer_text(title, subtitle, subtitle2, content) ==
    (IF Truthy(title) THEN <<Tok("h2", "whole", "title", title.v)>> ELSE <<>>)
    \o (IF Truthy(subtitle) THEN <<Tok("h3", "whole", "subtitle", subtitle.v)>> ELSE <<>>)
    \o (IF Truthy(subtitle2) THEN <<Tok("h4", "whole", "subtitle2", subtitle2.v)>> ELSE <<>>)
    \o (IF Truthy(content)
        THEN IF Contains(content.v, "<") /\ Contains(content.v, ">")
             THEN << Open("div", "content"),
                     Tok("", "raw", "content", content.v),
                     Close("div") >>
             ELSE <<Tok("p", "whole", "content", replace(content.v, NL, BR))>>
        ELSE <<>>)

(***************************************************************************)
(* NewsletterGenerator._generate_layer_html                                *)
(***************************************************************************)
LEFT == <<"l", "e", "f", "t">>
RIGHT == <<"r", "i", "g", "h", "t">>

LayerKeys ==
    {"order", "title", "subtitle", "subtitle2", "content", "image_url",
     "image_base64", "image_alignment", "link_url"}

\* LayerImageSrc testing the embedded image first, as the header does
LayerImageSrc_EmbeddedFirst(layer) ==
    LET image_url == Get(layer, "image_url", None)
        image_base64 == Get(layer, "image_base64", None)
    IN  IF Truthy(image_base64) THEN image_base64
        ELSE IF Truthy(image_url) /\ strip(image_url.v) # <<>>
        THEN PyStr(strip(image_url.v))
        ELSE None

\* The image source of a layer (lines 343-352): the URL wins when it is
\* non-blank after trimming, else the embedded image, else None.
LayerImageSrc(layer) ==
    LET image_url == Get(layer, "image_url", None)
        image_base64 == Get(layer, "image_base64", None)
    IN  IF Truthy(image_url) /\ strip(image_url.v) # <<>>
        THEN PyStr(strip(image_url.v))
        ELSE IF Truthy(image_base64) THEN image_base64 ELSE None

\* The anchor around a cell's content, emitted only when has_link.
LinkOpen(has_link, link_url) ==
    IF has_link THEN <<OpenV("a", "layer-link", link_url)>> ELSE <<>>

\* LinkClose leaving the anchor open
LinkClose_Never(has_link) == <<>>

LinkClose(has_link) == IF has_link THEN <<Close("a")>> ELSE <<>>

ImageCell(has_link, link_url, image_src, side) ==
    <<Open("td", side)>>
    \o LinkOpen(has_link, link_url)
    \o <<Tok("img", "void", "layer-image", image_src)>>
    \o LinkClose(has_link)
    \o <<Close("td")>>

\* TextCell leaving the text block outside the link
TextCell_Unlinked(has_link, link_url, text, role) ==
    <<Open("td", role)>> \o text \o <<Close("td")>>

\* The text cell of a layer (lines 408-419, 423-434, 455-466)
TextCell(has_link, link_url, text, role) ==
    <<Open("td", role)>>
    \o LinkOpen(has_link, link_url)
    \o text
    \o LinkClose(has_link)
    \o <<Close("td")>>

\* LayerCells with the image column always first
LayerCells_ImageFirst(has_link, link_url, image_src, image_alignment, text) ==
    IF Truthy(image_src) /\ strip(image_src.v) # <<>>
       /\ image_alignment \in {LEFT, RIGHT}
    THEN ImageCell(has_link, link_url, image_src.v, "image-cell-left")
         \o TextCell(has_link, link_url, text, "text-cell-right")
    ELSE TextCell(has_link, link_url, text, "text-cell-full")

\* Lines 387-466: the cells of the layer's inner table row
LayerCells(has_link, link_url, image_src, image_alignment, text) ==
    LET has_image == Truthy(image_src) /\ strip(image_src.v) # <<>>
    IN  IF has_image /\ image_alignment = LEFT
        THEN ImageCell(has_link, link_url, image_src.v, "image-cell-left")
             \o TextCell(has_link, link_url, text, "text-cell-right")
        ELSE IF has_image /\ image_alignment = RIGHT
        THEN TextCell(has_link, link_url, text, "text-cell-left")
             \o ImageCell(has_link, link_url, image_src.v, "image-cell-right")
        ELSE TextCell(has_link, link_url, text, "text-cell-full")

_generate_layer_html(layer) ==
    LET alignment_raw == Get(layer, "image_alignment", PyStr(LEFT))
        link_raw == Get(layer, "link_url", PyStr(<<>>))
    IN  IF alignment_raw.ty # "str" \/ link_raw.ty # "str"
        THEN Raise("AttributeError")      \* None.lower(), None.strip()
        ELSE
        LET image_alignment == lower(alignment_raw.v)
            image_src == LayerImageSrc(layer)
            link_url == strip(link_raw.v)
            has_link == link_url # <<>>
            text == _generate_layer_text(
                        Get(layer, "title", PyStr(<<>>)),
                        Get(layer, "subtitle", PyStr(<<>>)),
                        Get(layer, "subtitle2", PyStr(<<>>)),
                        Get(layer, "content", PyStr(<<>>)))
        IN  Ok( << Open("tr", "layer-row"),
                   Open("td", "layer-container"),
                   Open("table", "layer-table"),
                   Open("tr", "layer-cells") >>
                \o LayerCells(has_link, link_url, image_src, image_alignment, text)
                \o << Close("tr"), Close("table"), Close("td"), Close("tr") >> )

(***************************************************************************)
(* NewsletterGenerator._generate_header_html                               *)
(***************************************************************************)
HeaderKeys ==
    {"pre_header_text", "header_title", "header_text", "header_image_base64",
     "header_image_url"}

\* Lines 581-586: the embedded image is tested first, then the URL, and
\* neither is trimmed.
HeaderImageSrc(header_config) ==
    LET header_image_base64 == Get(header_config, "header_image_base64", None)
        header_image_url == Get(header_config, "header_image_url", None)
    IN  IF Truthy(header_image_base64) THEN header_image_base64
        ELSE IF Truthy(header_image_url) THEN header_image_url
        ELSE None

\* PreHeaderRow without its `if pre_header_text:` guard
PreHeaderRow_Unguarded(pre_header_text) ==
    << Open("tr", "pre-header-row"),
       Open("td", "pre-header-cell"),
       Tok("span", "whole", "pre-header", pre_header_text),
       Close("td"), Close("tr") >>

\* Lines 546-559
PreHeaderRow(pre_header_text) ==
    IF pre_header_text # <<>>
    THEN << Open("tr", "pre-header-row"),
            Open("td", "pre-header-cell"),
            Tok("span", "whole", "pre-header", pre_header_text),
            Close("td"), Close("tr") >>
    ELSE <<>>

\* Lines 616-639
HeaderTextRow(header_text) ==
    IF header_text # <<>>
    THEN << Open("tr", "header-text-row"), Open("td", "header-text-cell") >>
         \o (IF Contains(header_text, "<") /\ Contains(header_text, ">")
             THEN << Open("div", "header-text"),
                     Tok("", "raw", "header-text", header_text),
                     Close("div") >>
             ELSE <<Tok("p", "whole", "header-text", replace(header_text, NL, BR))>>)
         \o << Close("td"), Close("tr") >>
    ELSE <<>>

\* header_title without the fallback to the subject
HeaderTitle_NoFallback(subject, title_raw) == PyStr(strip(title_raw.v))

\* Lines 562-564: the trimmed title, or the subject when that is empty
HeaderTitle(subject, title_raw) ==
    IF strip(title_raw.v) = <<>> THEN subject ELSE PyStr(strip(title_raw.v))

HeaderImageRow(image_src) ==
    IF Truthy(image_src)
    THEN << Open("tr", "header-image-row"),
            Open("td", "header-image-cell"),
            Tok("img", "void", "header-image", image_src.v),
            Close("td"), Close("tr") >>
    ELSE <<>>

HeaderSpacerRow ==
    << Open("tr", "header-spacer-row"),
       Open("td", "header-spacer-cell"),
       Tok("", "text", "nbsp", <<>>),
       Close("td"), Close("tr") >>

HeaderTitleRow(header_title) ==
    IF Truthy(header_title)
    THEN << Open("tr", "header-title-row"),
            Open("td", "header-title-cell"),
            Tok("h1", "whole", "header-title", header_title.v),
            Close("td"), Close("tr") >>
    ELSE <<>>

\* HeaderRows with the blank row ahead of the image row
HeaderRows_SpacerFirst(image_src, header_title, header_text) ==
    HeaderSpacerRow \o HeaderImageRow(image_src)
    \o HeaderTitleRow(header_title) \o HeaderTextRow(header_text)

\* Lines 588-639: image row, blank row, title row, text row
HeaderRows(image_src, header_title, header_text) ==
    HeaderImageRow(image_src) \o HeaderSpacerRow
    \o HeaderTitleRow(header_title) \o HeaderTextRow(header_text)

_generate_header_html(subject, header_config) ==
    LET pre_raw == Get(header_config, "pre_header_text", PyStr(<<>>))
        title_raw == Get(header_config, "header_title", PyStr(<<>>))
        text_raw == Get(header_config, "header_text", PyStr(<<>>))
    IN  IF pre_raw.ty # "str" \/ title_raw.ty # "str" \/ text_raw.ty # "str"
        THEN Raise("AttributeError")      \* None.strip()
        ELSE
        LET pre_header_text == strip(pre_raw.v)
            header_title == HeaderTitle(subject, title_raw)
            header_text == strip(text_raw.v)
            image_src == HeaderImageSrc(header_config)
        IN  Ok( PreHeaderRow(pre_header_text)
                \o HeaderRows(image_src, header_title, header_text) )

(***************************************************************************)
(* NewsletterGenerator._generate_footer_html                               *)
(***************************************************************************)
\* String literals compared or emitted whole are one-element sequences.
ABOVE_TEXT == <<"Above Text">>
AFTER_TEXT == <<"After Text">>
URLS_ONLY == <<"URLs Only">>
IMAGES == <<"Images">>
DEFAULT_SOCIAL_LABEL == <<"Die Social-Media-Kanaele der bfz gGmbH:">>

Platforms == <<"facebook", "linkedin", "xing", "instagram">>

FooterKeys ==
    {"footer_image_base64", "footer_image_url", "footer_image_position",
     "footer_image_link_url", "footer_alignment", "company_name", "address",
     "directors", "social_media_type", "social_image_width", "social_media_label",
     "facebook_url", "facebook_image_base64", "linkedin_url",
     "linkedin_image_base64", "xing_url", "xing_image_base64",
     "instagram_url", "instagram_image_base64"}

UrlKey(p) ==
    CASE p = "facebook" -> "facebook_url" [] p = "linkedin" -> "linkedin_url"
      [] p = "xing" -> "xing_url" [] p = "instagram" -> "instagram_url"

IconKey(p) ==
    CASE p = "facebook" -> "facebook_image_base64"
      [] p = "linkedin" -> "linkedin_image_base64"
      [] p = "xing" -> "xing_image_base64"
      [] p = "instagram" -> "instagram_image_base64"

\* Lines 676-681: as in the header, the embedded image is tested first.
FooterImageSrc(footer_config) ==
    LET footer_image_base64 == Get(footer_config, "footer_image_base64", None)
        footer_image_url == Get(footer_config, "footer_image_url", None)
    IN  IF Truthy(footer_image_base64) THEN footer_image_base64
        ELSE IF Truthy(footer_image_url) THEN footer_image_url
        ELSE None

\* Lines 696-711
_append_footer_image(footer_config, image_src) ==
    IF ~Truthy(image_src) THEN <<>>
    ELSE
    LET footer_image_link_url == Get(footer_config, "footer_image_link_url", PyStr(<<>>))
        linked == Truthy(footer_image_link_url) /\ strip(footer_image_link_url.v) # <<>>
    IN  <<Open("div", "footer-image")>>
        \o (IF linked THEN <<OpenV("a", "footer-image-link", footer_image_link_url.v)>>
            ELSE <<>>)
        \o <<Tok("img", "void", "footer-image", image_src.v)>>
        \o (IF linked THEN <<Close("a")>> ELSE <<>>)
        \o <<Close("div")>>

\* Lines 721-742
CompanyInfo(footer_config) ==
    LET company_name == Get(footer_config, "company_name", PyStr(<<>>))
        address == Get(footer_config, "address", PyStr(<<>>))
        directors == Get(footer_config, "directors", PyStr(<<>>))
    IN  IF Truthy(company_name) \/ Truthy(address) \/ Truthy(directors)
        THEN <<Open("div", "company-info")>>
             \o (IF Truthy(company_name)
                 THEN <<Tok("p", "whole", "company-name", company_name.v)>> ELSE <<>>)
             \o (IF Truthy(address)
                 THEN <<Tok("p", "whole", "address", replace(address.v, NL, BR))>>
                 ELSE <<>>)
             \o (IF Truthy(directors)
                 THEN <<Tok("p", "whole", "directors", replace(directors.v, NL, BR))>>
                 ELSE <<>>)
             \o <<Close("div")>>
        ELSE <<>>

\* if <p>_url and <p>_image_base64 (lines 771, 783, 795, 807)
HasIcon(footer_config, p) ==
    /\ Truthy(Get(footer_config, UrlKey(p), PyStr(<<>>)))
    /\ Truthy(Get(footer_config, IconKey(p), None))

\* the name written into the platform's cell (alt text) or text link
PlatformName(p) ==
    CASE p = "facebook" -> "Facebook" [] p = "linkedin" -> "LinkedIn"
      [] p = "xing" -> "Xing" [] p = "instagram" -> "Instagram"

\* IconCells with a spacer cell after every icon
IconCells_SpacerAfterEach(footer_config, i) ==
    IF HasIcon(footer_config, Platforms[i])
    THEN << Tok("td", "whole", "social-icon",
                <<PlatformName(Platforms[i])>>
                \o Get(footer_config, UrlKey(Platforms[i]), PyStr(<<>>)).v),
            Tok("td", "whole", "social-spacer", <<>>) >>
    ELSE <<>>

\* Lines 771-814: the icon cell of platform number i, followed by a spacer
\* cell when a later platform has an icon.  The cell's value is the
\* platform's name followed by the href.
IconCells(footer_config, i) ==
    IF HasIcon(footer_config, Platforms[i])
    THEN <<Tok("td", "whole", "social-icon",
               <<PlatformName(Platforms[i])>>
               \o Get(footer_config, UrlKey(Platforms[i]), PyStr(<<>>)).v)>>
         \o (IF \E j \in (i + 1)..Len(Platforms) : HasIcon(footer_config, Platforms[j])
             THEN <<Tok("td", "whole", "social-spacer", <<>>)>>
             ELSE <<>>)
    ELSE <<>>

\* Lines 816-823
TextLink(footer_config, i) ==
    LET url == Get(footer_config, UrlKey(Platforms[i]), PyStr(<<>>))
    IN  IF Truthy(url)
        THEN <<Tok("a", "whole", "social-link", <<PlatformName(Platforms[i])>> \o url.v)>>
        ELSE <<>>

SocialLinks(footer_config, images) ==
    IF images
    THEN IconCells(footer_config, 1) \o IconCells(footer_config, 2)
         \o IconCells(footer_config, 3) \o IconCells(footer_config, 4)
    ELSE TextLink(footer_config, 1) \o TextLink(footer_config, 2)
         \o TextLink(footer_config, 3) \o TextLink(footer_config, 4)

\* Lines 825-848
SocialBlock(footer_config, images) ==
    LET social_links == SocialLinks(footer_config, images)
        social_media_label == Get(footer_config, "social_media_label",
                                  PyStr(DEFAULT_SOCIAL_LABEL))
    IN  IF social_links # <<>>
        THEN <<Open("div", "social")>>
             \o (IF Truthy(social_media_label)
                 THEN <<Tok("p", "whole", "social-label", social_media_label.v)>>
                 ELSE <<>>)
             \o (IF images
                 THEN << Open("table", "social-table"), Open("tr", "social-row") >>
                      \o social_links \o << Close("tr"), Close("table") >>
                 ELSE <<Open("div", "social-links")>> \o social_links \o <<Close("div")>>)
             \o <<Close("div")>>
        ELSE <<>>

_generate_footer_html(footer_config) ==
    LET footer_image_position == Get(footer_config, "footer_image_position",
                                     PyStr(ABOVE_TEXT))
        alignment_raw == Get(footer_config, "footer_alignment", PyStr(LEFT))
        social_media_type == Get(footer_config, "social_media_type", PyStr(URLS_ONLY))
        social_image_width == Get(footer_config, "social_image_width", PyInt(30))
        images == social_media_type = PyStr(IMAGES)
        image_src == FooterImageSrc(footer_config)
    IN  IF alignment_raw.ty # "str"
        THEN Raise("AttributeError")      \* None.lower()
        ELSE IF images /\ social_image_width.ty # "int"
        THEN Raise("TypeError")           \* None + 5
        ELSE Ok( << Open("tr", "footer-row"), Open("td", "footer-cell") >>
                 \o (IF footer_image_position = PyStr(ABOVE_TEXT)
                     THEN _append_footer_image(footer_config, image_src) ELSE <<>>)
                 \o CompanyInfo(footer_config)
                 \o (IF footer_image_position = PyStr(AFTER_TEXT)
                     THEN _append_footer_image(footer_config, image_src) ELSE <<>>)
                 \o SocialBlock(footer_config, images)
                 \o << Close("td"), Close("tr") >> )

(***************************************************************************)
(* NewsletterGenerator._generate_subscription_html                         *)
(***************************************************************************)
SubscriptionKeys ==
    {"company_name", "address", "copyright_text", "disclaimer_text",
     "unsubscribe_link", "view_online_link", "footer_color"}

COMPANY_TOKEN == <<"{", "c", "o", "m", "p", "a", "n", "y", "}">>
DEFAULT_DISCLAIMER ==
    <<"This email was sent to you because you subscribed to our newsletter.">>
DEFAULT_COMPANY == <<"Your Company Name">>
DEFAULT_ADDRESS == <<"123 Main Street, Suite 400, City, State 12345">>
DEFAULT_UNSUBSCRIBE == <<"#UNSUBSCRIBE_LINK">>
DEFAULT_VIEW_ONLINE == <<"#VIEW_ONLINE_LINK">>

\* f'{x}' of a value
Format(x) ==
    CASE x.ty = "str" -> x.v
      [] x.ty = "int" -> <<ToString(x.v[1])>>
      [] OTHER -> <<"None">>

_generate_subscription_html(subscription_config) ==
    LET disclaimer == Get(subscription_config, "disclaimer_text",
                          PyStr(DEFAULT_DISCLAIMER))
        company_name == Get(subscription_config, "company_name", PyStr(DEFAULT_COMPANY))
        copyright_raw ==
            Get(subscription_config, "copyright_text",
                PyStr(<<"(c) 2024 ">> \o Format(company_name)
                      \o <<". All rights reserved.">>))
        substitute == Truthy(copyright_raw) /\ HasSubstring(copyright_raw.v, COMPANY_TOKEN)
        address == Get(subscription_config, "address", PyStr(DEFAULT_ADDRESS))
        unsubscribe_link == Get(subscription_config, "unsubscribe_link",
                                PyStr(DEFAULT_UNSUBSCRIBE))
        view_online_link == Get(subscription_config, "view_online_link",
                                PyStr(DEFAULT_VIEW_ONLINE))
    IN  IF substitute /\ company_name.ty # "str"
        THEN Raise("TypeError")          \* str.replace(old, None)
        ELSE
        LET copyright_text ==
                IF substitute
                THEN PyStr(replace(copyright_raw.v, COMPANY_TOKEN, company_name.v))
                ELSE copyright_raw
        IN  Ok( << Open("tr", "subscription-separator-row"),
                   Open("td", "subscription-separator"),
                   Open("table", "subscription-separator-table"),
                   Open("tr", "subscription-separator-line"),
                   Tok("td", "whole", "subscription-line", <<>>),
                   Close("tr"), Close("table"), Close("td"), Close("tr"),
                   Open("tr", "subscription-row"),
                   Open("td", "subscription-content") >>
                \o (IF Truthy(disclaimer)
                    THEN <<Tok("", "text", "disclaimer", Format(disclaimer))>> ELSE <<>>)
                \o (IF Truthy(copyright_text)
                    THEN <<Tok("", "text", "copyright", Format(copyright_text))>> ELSE <<>>)
                \o (IF Truthy(address)
                    THEN <<Tok("", "text", "subscription-address", Format(address))>>
                    ELSE <<>>)
                \o << Tok("a", "whole", "unsubscribe", Format(unsubscribe_link)),
                      Tok("a", "whole", "view-online", Format(view_online_link)),
                      Close("td"), Close("tr") >> )

(***************************************************************************)
(* NewsletterGenerator.generate_html                                       *)
(***************************************************************************)
OSWALD == <<"Oswald">>

\* for layer in layers: html_parts.extend(_generate_layer_html(layer, ...)),
\* in the order of the list (lines 303-305)
RECURSIVE LayersHtml(_)
LayersHtml(layers) ==
    IF layers = <<>> THEN Ok(<<>>)
    ELSE LET first == _generate_layer_html(Head(layers))
             rest == LayersHtml(Tail(layers))
         IN  IF first.exc # "none" THEN first
             ELSE IF rest.exc # "none" THEN rest
             ELSE Ok(first.parts \o rest.parts)

\* Lines 278-299
DocumentHead(subject, max_width, font_family) ==
    << Tok("!DOCTYPE", "void", "doctype", <<>>),
       Open("html", "html"),
       Open("head", "head"),
       Tok("meta", "void", "charset", <<>>),
       Tok("meta", "void", "viewport", <<>>),
       Tok("title", "whole", "title", Format(subject)) >>
    \o (IF HasSubstring(font_family, OSWALD)
        THEN <<Tok("link", "void", "google-fonts", <<>>)>> ELSE <<>>)
    \o << Close("head"),
          OpenV("body", "body", font_family),
          Open("table", "outer-table"),
          Open("tr", "outer-row"),
          Open("td", "outer-cell"),
          OpenV("table", "inner-table", Format(max_width)) >>

\* Lines 315-322
DocumentTail ==
    << Close("table"), Close("td"), Close("tr"), Close("table"),
       Close("body"), Close("html") >>

\* subscription_config is None or a dict; `if subscription_config:` (line 311)
SubscriptionSupplied(subscription_config) ==
    subscription_config # None /\ DictTruthy(subscription_config)

\* generate_html appending the footer before the layers
generate_html_FooterFirst(subject, header_config, layers, footer_config, subscription_config, max_width, font_family) ==
    LET header == _generate_header_html(subject, header_config)
        body == LayersHtml(layers)
        footer == _generate_footer_html(footer_config)
        subscription ==
            IF SubscriptionSupplied(subscription_config)
            THEN _generate_subscription_html(subscription_config)
            ELSE Ok(<<>>)
    IN  IF header.exc # "none" THEN header
        ELSE IF body.exc # "none" THEN body
        ELSE IF footer.exc # "none" THEN footer
        ELSE IF subscription.exc # "none" THEN subscription
        ELSE Ok( DocumentHead(subject, max_width, font_family)
                 \o header.parts \o footer.parts \o body.parts
                 \o subscription.parts \o DocumentTail )

\* generate_html with html_parts shared between the calls: the parts of the
\* call before stay at the front of the list
generate_html_SharedParts(subject, header_config, layers, footer_config, subscription_config, max_width, font_family) ==
    LET fresh == generate_html_FooterFirst(subject, header_config, layers, footer_config, subscription_config, max_width, font_family)
        header == _generate_header_html(subject, header_config)
        body == LayersHtml(layers)
        footer == _generate_footer_html(footer_config)
        subscription ==
            IF SubscriptionSupplied(subscription_config)
            THEN _generate_subscription_html(subscription_config)
            ELSE Ok(<<>>)
    IN  IF fresh.exc # "none" THEN fresh
        ELSE Ok( ret.parts \o DocumentHead(subject, max_width, font_family)
                 \o header.parts \o body.parts \o footer.parts
                 \o subscription.parts \o DocumentTail )

\* Lines 278-324
generate_html(subject, header_config, layers, footer_config, subscription_config, max_width, font_family) ==
    LET header == _generate_header_html(subject, header_config)
        body == LayersHtml(layers)
        footer == _generate_footer_html(footer_config)
        subscription ==
            IF SubscriptionSupplied(subscription_config)
            THEN _generate_subscription_html(subscription_config)
            ELSE Ok(<<>>)
    IN  IF header.exc # "none" THEN header
        ELSE IF body.exc # "none" THEN body
        ELSE IF footer.exc # "none" THEN footer
        ELSE IF subscription.exc # "none" THEN subscription
        ELSE Ok( DocumentHead(subject, max_width, font_family)
                 \o header.parts \o body.parts \o footer.parts
                 \o subscription.parts \o DocumentTail )

(***************************************************************************)
(* main(): validation of the layer orders, the sort, the Generate button   *)
(***************************************************************************)
\* orders = [layer.get('order', i) for i, layer in enumerate(layers, start=1)]
orders(layers) ==
    [i \in 1..Len(layers) |-> Get(layers[i], "order", PyInt(i)).v[1]]

\* duplicate_orders = [order for order in set(orders) if orders.count(order) > 1]
duplicate_orders(layers) ==
    LET os == orders(layers)
    IN  {o \in {os[i] : i \in DOMAIN os} :
            Cardinality({i \in DOMAIN os : os[i] = o}) > 1}

\* layers.index(x): the first position holding a dict equal to x
ListIndex(layers, x) ==
    CHOOSE i \in DOMAIN layers :
        layers[i] = x /\ \A j \in 1..(i - 1) : layers[j] # x

\* sorted(seq, key=...) for keys <<a, b>> compared lexicographically: Python's
\* sort is stable, so an element goes after every element with a smaller key
\* and after the earlier elements with an equal key.
KeyLess(k1, k2) == k1[1] < k2[1] \/ (k1[1] = k2[1] /\ k1[2] < k2[2])

StableSort(seq, keys) ==
    LET pos(i) == 1 + Cardinality({j \in DOMAIN seq :
                        KeyLess(keys[j], keys[i]) \/ (keys[j] = keys[i] /\ j < i)})
    IN  [p \in DOMAIN seq |-> seq[CHOOSE i \in DOMAIN seq : pos(i) = p]]

\* sorted_layers leaving the list as the form gave it
sorted_layers_Unsorted(layers) == layers

\* sorted_layers with the later of two layers of one order first
sorted_layers_TiesReversed(layers) ==
    StableSort(layers,
        [i \in DOMAIN layers |->
            <<Get(layers[i], "order", PyInt(999)).v[1], 0 - i>>])

\* Lines 2764-2770: `layers` after the validation block
sorted_layers(layers) ==
    IF duplicate_orders(layers) # {}
    THEN StableSort(layers,
            [i \in DOMAIN layers |->
                <<Get(layers[i], "order", PyInt(999)).v[1], ListIndex(layers, layers[i])>>])
    ELSE StableSort(layers,
            [i \in DOMAIN layers |-> <<Get(layers[i], "order", PyInt(999)).v[1], 0>>])

\* GenerateButton without the second validation of the orders
GenerateButton_Unchecked(config, header_config, layers, footer_config, subscription_config) ==
    [error |-> FALSE, called |-> TRUE,
     html |-> generate_html(config.email_subject, header_config, layers,
                            footer_config, subscription_config,
                            config.max_width, config.font_family)]

\* Lines 2783-2808: the handler of the Generate button, given the values main
\* has collected.  It reports an error, or calls generate_html and returns
\* the document to store.
GenerateButton(config, header_config, layers, footer_config, subscription_config) ==
    IF duplicate_orders(layers) # {}
    THEN [error |-> TRUE, called |-> FALSE, html |-> Ok(<<>>)]
    ELSE [error |-> FALSE, called |-> TRUE,
          html |-> generate_html(config.email_subject, header_config, layers,
                                 footer_config, subscription_config,
                                 config.max_width, config.font_family)]

(***************************************************************************)
(* ImageProcessor.convert_to_base64 and the image fields of the forms      *)
(***************************************************************************)
\* An uploaded file: the MIME type the browser gave, the format and the mode
\* Pillow finds, and whether Pillow raises while opening, converting or
\* saving it.
UploadedFile(type, format, mode, fails) ==
    [ty |-> "UploadedFile", type |-> type, format |-> format, mode |-> mode,
     fails |-> fails]

\* every image flattened to RGB before it is saved
SavedMode_Flattened(is_png, mode) == "RGB"

\* the mode of the image that is saved (lines 216-229)
SavedMode(is_png, mode) ==
    IF is_png
    THEN IF mode \in {"RGBA", "LA", "P"} THEN mode ELSE "RGBA"
    ELSE "RGB"

\* convert_to_base64 encoding whatever it is given
convert_to_base64_Unchecked(image_file) ==
    IF image_file.ty = "NoneType" THEN None
    ELSE LET is_png == image_file.type \in {"image/png", "image/PNG"}
                         \/ image_file.format = "PNG"
         IN  PyStr(<< IF is_png THEN "data:image/png;base64," ELSE "data:image/jpeg;base64,",
                      SavedMode(is_png, image_file.mode) >>)

\* Lines 192-240.  The whole conversion is inside try; `except Exception`
\* reports the error with st.error and returns None.  The data URI is its
\* prefix followed by the payload, which stands for the saved image.
convert_to_base64(image_file) ==
    IF image_file.ty = "NoneType" THEN None
    ELSE IF image_file.fails THEN None
    ELSE LET is_png == image_file.type \in {"image/png", "image/PNG"}
                         \/ image_file.format = "PNG"
         IN  PyStr(<< IF is_png THEN "data:image/png;base64," ELSE "data:image/jpeg;base64,",
                      SavedMode(is_png, image_file.mode) >>)

EXTERNAL_URL == <<"External URL">>
UPLOAD_IMAGE == <<"Upload Image (Base64)">>

\* The image fields of render_layer_form (lines 2104-2161): the values that
\* go into the layer dict, and `stored`, the value of
\* st.session_state["image_base64_<n>"] after the run.
LayerImageFields(image_source, url_text, existing_base64, image_file) ==
    IF image_source = EXTERNAL_URL
    THEN IF ~Truthy(url_text) /\ Truthy(existing_base64)
         THEN [image_url |-> None, image_base64 |-> existing_base64,
               stored |-> existing_base64]
         ELSE [image_url |-> url_text, image_base64 |-> None,
               stored |-> existing_base64]
    ELSE IF image_file.ty # "NoneType"
         THEN LET image_base64 == convert_to_base64(image_file)
              IN  [image_url |-> None, image_base64 |-> image_base64,
                   stored |-> IF image_base64 = None THEN existing_base64
                              ELSE image_base64]
         ELSE [image_url |-> None,
               image_base64 |-> IF Truthy(existing_base64) THEN existing_base64 ELSE None,
               stored |-> existing_base64]

\* The image fields of render_header_config (lines 1096-1147); `stored` is
\* st.session_state["header_image_base64"] after the run, which takes the
\* result of every conversion, None included.
HeaderImageFields(image_source, url_text, existing_base64, image_file) ==
    IF image_source = EXTERNAL_URL
    THEN IF ~Truthy(url_text) /\ Truthy(existing_base64)
         THEN [image_url |-> None, image_base64 |-> existing_base64,
               stored |-> existing_base64]
         ELSE [image_url |-> url_text, image_base64 |-> None,
               stored |-> existing_base64]
    ELSE IF image_file.ty # "NoneType"
         THEN LET image_base64 == convert_to_base64(image_file)
              IN  [image_url |-> None, image_base64 |-> image_base64,
                   stored |-> image_base64]
         ELSE [image_url |-> None,
               image_base64 |-> IF Truthy(existing_base64) THEN existing_base64 ELSE None,
               stored |-> existing_base64]

\* The image fields of render_footer_config (lines 1342-1393), the same code
\* as the header's under the footer's keys.
FooterImageFields(image_source, url_text, existing_base64, image_file) ==
    IF image_source = EXTERNAL_URL
    THEN IF ~Truthy(url_text) /\ Truthy(existing_base64)
         THEN [image_url |-> None, image_base64 |-> existing_base64,
               stored |-> existing_base64]
         ELSE [image_url |-> url_text, image_base64 |-> None,
               stored |-> existing_base64]
    ELSE IF image_file.ty # "NoneType"
         THEN LET image_base64 == convert_to_base64(image_file)
              IN  [image_url |-> None, image_base64 |-> image_base64,
                   stored |-> image_base64]
         ELSE [image_url |-> None,
               image_base64 |-> IF Truthy(existing_base64) THEN existing_base64 ELSE None,
               stored |-> existing_base64]

(***************************************************************************)
(* Bounds and the input values of the calls                                *)
(***************************************************************************)
\* the engine is called with lists of up to MaxLayers layers, their orders
\* in 1..MaxOrder
MaxLayers == 3
MaxOrder == 3
\* the form shows up to MaxForms layer forms (the sidebar allows 1..10), an
\* order typed into a form is in 1..MaxFormOrder (the form allows 1..10)
MaxForms == 3
MaxFormOrder == 2
MaxSessions == 2
\* at most MaxStyled styling widgets of the header form are off their defaults
MaxStyled == 1

EmptyDict(keys) == [k \in keys |-> Missing]

URL == <<"https://img.test/a.png">>
PADDED_URL == <<" ", "https://img.test/a.png", "\n">>
DATA_URI == <<"data:image/png;base64,iVBORw0KGgo=">>
LINK == <<"https://x.test">>
PADDED_LINK == <<" ", "https://x.test", " ">>
PLAIN_TEXT == <<"H", "i", "\n", "t", "h", "e", "r", "e">>
HTML_TEXT == <<"<", "p", ">", "x", "<", "/", "p", ">">>
SUBJECT == <<"News">>

ImageUrlValues ==
    {Missing, None, PyStr(<<>>), PyStr(<<" ">>), PyStr(URL), PyStr(PADDED_URL)}
Base64Values == {None, PyStr(<<>>), PyStr(DATA_URI)}
AlignmentValues ==
    {Missing, None, PyStr(LEFT), PyStr(RIGHT), PyStr(<<"L", "e", "f", "t">>),
     PyStr(<<"R", "i", "g", "h", "t">>), PyStr(<<"c", "e", "n", "t", "e", "r">>)}
LinkValues ==
    {Missing, None, PyStr(<<>>), PyStr(<<" ">>), PyStr(LINK), PyStr(PADDED_LINK)}
TitleValues == {PyStr(<<>>), PyStr(<<"Welcome">>)}
\* plain text with a lone "<" and an "&"
SPECIAL_TEXT == <<"a", "<", "b", "&", "c", "\n">>
ContentValues == {PyStr(<<>>), PyStr(PLAIN_TEXT), PyStr(HTML_TEXT), PyStr(SPECIAL_TEXT)}

LayerInputs ==
    { [EmptyDict(LayerKeys) EXCEPT
          !.image_url = u, !.image_base64 = b, !.image_alignment = a,
          !.link_url = l, !.title = t, !.content = c] :
      u \in ImageUrlValues, b \in Base64Values, a \in AlignmentValues,
      l \in LinkValues, t \in TitleValues, c \in ContentValues }

PreHeaderValues ==
    {Missing, None, PyStr(<<>>), PyStr(<<" ">>), PyStr(<<"Preview">>),
     PyStr(<<"\t", "Preview", " ">>)}
HeaderTitleValues ==
    {Missing, None, PyStr(<<>>), PyStr(<<" ">>), PyStr(<<" ", "Dear", " ">>)}
HeaderTextValues == {Missing, PyStr(<<>>), PyStr(PLAIN_TEXT), PyStr(HTML_TEXT)}
SubjectValues == {PyStr(<<>>), PyStr(SUBJECT)}

HeaderInputs ==
    { [EmptyDict(HeaderKeys) EXCEPT
          !.pre_header_text = p, !.header_title = t, !.header_text = x,
          !.header_image_base64 = b, !.header_image_url = u] :
      p \in PreHeaderValues, t \in HeaderTitleValues, x \in HeaderTextValues,
      b \in Base64Values, u \in ImageUrlValues }

PositionValues ==
    {Missing, None, PyStr(ABOVE_TEXT), PyStr(AFTER_TEXT), PyStr(<<"above text">>)}
FooterAlignmentValues == {Missing, None, PyStr(<<"C", "e", "n", "t", "e", "r">>)}
FooterLinkValues == {Missing, PyStr(<<>>), PyStr(<<" ">>), PyStr(LINK)}
CompanyValues == {PyStr(<<>>), PyStr(<<"Acme">>)}
SocialTypeValues == {Missing, PyStr(URLS_ONLY), PyStr(IMAGES)}
SocialWidthValues == {Missing, None, PyInt(30)}
SocialUrlValues == {PyStr(<<>>), PyStr(LINK)}
IconValues == {None, PyStr(DATA_URI)}
SocialLabelValues == {Missing, PyStr(<<>>)}

\* The footer's image block and its social block are separate code; the
\* inputs vary one of them at a time.
FooterImageInputs ==
    { [EmptyDict(FooterKeys) EXCEPT
          !.footer_image_base64 = b, !.footer_image_url = u,
          !.footer_image_position = p, !.footer_image_link_url = l,
          !.footer_alignment = a, !.company_name = c] :
      b \in Base64Values, u \in ImageUrlValues, p \in PositionValues,
      l \in FooterLinkValues, a \in FooterAlignmentValues, c \in CompanyValues }

FooterSocialInputs ==
    { [EmptyDict(FooterKeys) EXCEPT
          !.social_media_type = t, !.social_image_width = w,
          !.social_media_label = lb,
          !.facebook_url = u1, !.facebook_image_base64 = i1,
          !.linkedin_url = u2, !.linkedin_image_base64 = i2,
          !.xing_url = u3, !.xing_image_base64 = i3,
          !.instagram_url = u4, !.instagram_image_base64 = i4] :
      t \in SocialTypeValues, w \in SocialWidthValues, lb \in SocialLabelValues,
      u1 \in SocialUrlValues, i1 \in IconValues, u2 \in SocialUrlValues,
      i2 \in IconValues, u3 \in SocialUrlValues, i3 \in IconValues,
      u4 \in SocialUrlValues, i4 \in IconValues }

FooterInputs == FooterImageInputs \cup FooterSocialInputs

COPYRIGHT == <<"(c) ">> \o COMPANY_TOKEN \o <<" & ">> \o COMPANY_TOKEN
CopyrightValues == {Missing, None, PyStr(<<>>), PyStr(<<"(c) 2024">>), PyStr(COPYRIGHT)}
SubscriptionCompanyValues == {Missing, None, PyStr(<<>>), PyStr(<<"Acme">>)}
DisclaimerValues == {Missing, PyStr(<<>>)}

SubscriptionInputs ==
    { [EmptyDict(SubscriptionKeys) EXCEPT
          !.copyright_text = c, !.company_name = n, !.disclaimer_text = d,
          !.address = a, !.footer_color = f] :
      c \in CopyrightValues, n \in SubscriptionCompanyValues,
      d \in DisclaimerValues, a \in DisclaimerValues,
      f \in {Missing, PyStr(<<"#999999">>)} }

\* The layer with order o; its title tells its fragment from the others'.
LayerTitle(o) == <<"Layer ", ToString(o)>>
LayerOf(o) ==
    [EmptyDict(LayerKeys) EXCEPT !.order = PyInt(o), !.title = PyStr(LayerTitle(o))]

RECURSIVE SeqsUpTo(_, _)
SeqsUpTo(S, n) ==
    IF n = 0 THEN {<<>>}
    ELSE LET shorter == SeqsUpTo(S, n - 1)
         IN  shorter \cup {Append(q, x) : q \in shorter, x \in S}

LayerLists == SeqsUpTo({LayerOf(o) : o \in 1..MaxOrder}, MaxLayers)

\* Lists for generate_html: also a layer whose optional field is None
DocLayerLists ==
    LayerLists \cup { <<[LayerOf(1) EXCEPT !.link_url = None]>>,
                      <<[LayerOf(1) EXCEPT !.image_alignment = None]>>,
                      <<[LayerOf(1) EXCEPT !.link_url = PyStr(LINK),
                                           !.image_url = PyStr(URL)]>> }

\* What the form hands to main for an all-default section
DefaultHeader == EmptyDict(HeaderKeys)
DefaultFooter == EmptyDict(FooterKeys)
DocHeaderInputs == {DefaultHeader, [DefaultHeader EXCEPT !.pre_header_text = None]}
DocFooterInputs ==
    {DefaultFooter,
     [DefaultFooter EXCEPT !.social_media_type = PyStr(IMAGES), !.social_image_width = None,
                           !.facebook_url = PyStr(LINK)],
     [DefaultFooter EXCEPT !.social_media_type = PyStr(IMAGES),
                           !.facebook_url = PyStr(LINK),
                           !.facebook_image_base64 = PyStr(DATA_URI),
                           !.footer_image_base64 = PyStr(DATA_URI),
                           !.footer_image_link_url = PyStr(LINK)]}
DocSubscriptionInputs ==
    {None, EmptyDict(SubscriptionKeys),
     [k \in SubscriptionKeys |-> PyStr(<<>>)],
     [EmptyDict(SubscriptionKeys) EXCEPT !.company_name = None,
                                         !.copyright_text = PyStr(COPYRIGHT)]}
\* subscription_config as main builds it: None, or render_subscription_config's
\* dict of seven str values (lines 2776-2779, 1869-1877)
FormSubscriptionInputs ==
    {None,
     [[k \in SubscriptionKeys |-> PyStr(<<>>)] EXCEPT !.footer_color = PyStr(<<"#999999">>)],
     [[k \in SubscriptionKeys |-> PyStr(<<>>)] EXCEPT !.footer_color = PyStr(<<"#999999">>),
                                                     !.company_name = PyStr(<<"Acme">>),
                                                     !.copyright_text = PyStr(COPYRIGHT)]}
MaxWidthValues == {PyInt(0), PyInt(1000), PyInt(5000)}

\* Files given to the uploaders
UploadedFiles ==
    { UploadedFile(t, f, m, b) :
        t \in {"image/png", "image/jpeg"}, f \in {"PNG", "JPEG"},
        m \in {"RGB", "RGBA", "LA", "P", "L"}, b \in BOOLEAN }
ImageSourceValues == {EXTERNAL_URL, UPLOAD_IMAGE}
UrlTextValues == {PyStr(<<>>), PyStr(<<" ">>), PyStr(URL)}
ExistingBase64Values == {None, PyStr(DATA_URI)}
Sections == {"layer", "header", "footer"}
FontValues == {<<"Oswald", ", sans-serif">>, <<"Arial", ", sans-serif">>}

(***************************************************************************)
(* The forms: what the render_* functions return to main                   *)
(***************************************************************************)
DefaultFont == <<"Oswald", ", sans-serif">>

PyHtml(parts) == [ty |-> "html", v |-> parts]

\* The text typed as title of the layer form number i
SlotTitle(i) == <<"Slot ", ToString(i)>>

\* render_sidebar (lines 1027-1035)
render_sidebar(ss) ==
    [email_subject |-> ss.email_subject,
     num_layers |-> ss.num_layers,
     max_width |-> PyInt(1000),
     font_family |-> DefaultFont,
     include_subscription |-> ss.include_subscription]

\* d.get(key, default) and `key in d` of a dict whose keys the model does not
\* fix in advance
Has(d, key) == key \in DOMAIN d /\ d[key] # Missing
GetKey(d, key, default) == IF Has(d, key) THEN d[key] ELSE default

\* the styling widgets of the header form, by widget key, and the key of the
\* dict render_header_config returns each under (lines 1259-1263)
StyleWidgets ==
    {"header_title_color", "header_title_font_size", "header_title_bold",
     "header_text_color", "header_text_font_size"}

StyleKey(widget) ==
    CASE widget = "header_title_color" -> "title_color"
      [] widget = "header_title_font_size" -> "title_font_size"
      [] widget = "header_title_bold" -> "title_bold"
      [] widget = "header_text_color" -> "text_color"
      [] widget = "header_text_font_size" -> "text_font_size"

StyleKeys == {StyleKey(w) : w \in StyleWidgets}

\* the widgets' value= arguments (lines 1172, 1181, 1189, 1239, 1247)
StyleDefault(widget) ==
    CASE widget = "header_title_color" -> PyStr(<<"#000000">>)
      [] widget = "header_title_font_size" -> PyInt(28)
      [] widget = "header_title_bold" -> PyTrue
      [] widget = "header_text_color" -> PyStr(<<"#000000">>)
      [] widget = "header_text_font_size" -> PyInt(16)

HeaderFormKeys == HeaderKeys \cup StyleKeys

\* render_header_config (lines 1251-1264): the text widgets at their
\* defaults, the image fields and the styling from the session
render_header_config(ss) ==
    LET image == HeaderImageFields(ss.header_image_source, ss.header_image_url,
                                   ss.header_image_base64, ss.header_upload)
    IN  [k \in HeaderFormKeys |->
            CASE k = "header_image_base64" -> image.image_base64
              [] k = "header_image_url" -> image.image_url
              [] k = "title_color" -> ss.header_title_color
              [] k = "title_font_size" -> ss.header_title_font_size
              [] k = "title_bold" -> ss.header_title_bold
              [] k = "text_color" -> ss.header_text_color
              [] k = "text_font_size" -> ss.header_text_font_size
              [] OTHER -> PyStr(<<>>)]

\* The session after render_header_config has run: the embedded image the
\* conversion stored (line 1143); the widget of the image source that is not
\* chosen is not rendered, and its state is dropped.
HeaderRun(ss) ==
    LET image == HeaderImageFields(ss.header_image_source, ss.header_image_url,
                                   ss.header_image_base64, ss.header_upload)
    IN  [ss EXCEPT
           !.header_image_base64 = image.stored,
           !.header_image_url =
               IF ss.header_image_source = EXTERNAL_URL THEN @ ELSE PyStr(<<>>),
           !.header_upload =
               IF ss.header_image_source = EXTERNAL_URL THEN None ELSE @]

\* apply_template_to_session_state, the image of the header (lines
\* 2288-2301): the session keys are set only for a value that is there
apply_template_header_image(ss, header_config) ==
    LET header_image_url_value == GetKey(header_config, "header_image_url", None)
        header_image_base64_value == GetKey(header_config, "header_image_base64", None)
    IN  IF Truthy(header_image_url_value) /\ strip(header_image_url_value.v) # <<>>
        THEN [ss EXCEPT !.header_image_url = PyStr(strip(header_image_url_value.v)),
                        !.header_image_source = EXTERNAL_URL]
        ELSE IF Truthy(header_image_base64_value)
                /\ strip(header_image_base64_value.v) # <<>>
        THEN [ss EXCEPT !.header_image_base64 = PyStr(strip(header_image_base64_value.v)),
                        !.header_image_source = UPLOAD_IMAGE]
        ELSE ss

\* Lines 2317-2326: each styling widget is set when the stored header_config
\* has a key of the widget's name, from the value under the dict's key
apply_template_header_style(ss, header_config) ==
    [ss EXCEPT
       !.header_title_color =
           IF Has(header_config, "header_title_color")
           THEN IF GetKey(header_config, "title_color", None) # None
                THEN header_config["title_color"] ELSE PyStr(<<"#000000">>)
           ELSE @,
       !.header_title_font_size =
           IF Has(header_config, "header_title_font_size")
           THEN header_config["title_font_size"] ELSE @,
       !.header_title_bold =
           IF Has(header_config, "header_title_bold")
           THEN IF Truthy(header_config["title_bold"]) THEN PyTrue ELSE PyFalse
           ELSE @,
       !.header_text_color =
           IF Has(header_config, "header_text_color")
           THEN IF GetKey(header_config, "text_color", None) # None
                THEN header_config["text_color"] ELSE PyStr(<<"#000000">>)
           ELSE @,
       !.header_text_font_size =
           IF Has(header_config, "header_text_font_size")
           THEN header_config["text_font_size"] ELSE @]

\* Lines 2283-2326 for the image and the styling
apply_template_header(ss, header_config) ==
    apply_template_header_style(apply_template_header_image(ss, header_config),
                                header_config)

\* Lines 571-579 of _generate_header_html: the styling the header's title
\* and text are rendered with
HeaderStyle(header_config) ==
    LET title_bold == GetKey(header_config, "title_bold", PyTrue)
    IN  [title_font_size |-> GetKey(header_config, "title_font_size", PyInt(28)),
         title_color |-> GetKey(header_config, "title_color", PyStr(<<"#000000">>)),
         title_weight |-> IF Truthy(title_bold) THEN 700 ELSE 400,
         text_font_size |-> GetKey(header_config, "text_font_size", PyInt(16)),
         text_color |-> GetKey(header_config, "text_color", PyStr(<<"#000000">>))]

\* render_layer_form (lines 2204-2227) of the layer form number i
render_layer_form(ss, i) ==
    [EmptyDict(LayerKeys) EXCEPT
        !.order = PyInt(ss.layer_order[i]),
        !.title = PyStr(SlotTitle(i)),
        !.subtitle = PyStr(<<>>), !.subtitle2 = PyStr(<<>>),
        !.content = PyStr(<<>>),
        !.image_url = PyStr(<<>>), !.image_base64 = None,
        !.image_alignment = PyStr(<<"L", "e", "f", "t">>),
        !.link_url = PyStr(<<>>)]

PlatformSet == {Platforms[i] : i \in DOMAIN Platforms}

\* the social rendering modes offered by the radio (line 1570)
social_media_type_options == {PyStr(URLS_ONLY), PyStr(IMAGES)}

\* any([...]) over the four icon images kept in the session (lines 1574-1579)
has_social_images(ss) == \E p \in PlatformSet : Truthy(ss.footer_icon[p])

\* Lines 1571-1596: the value of st.session_state["footer_social_type"] when
\* the radio is created, which is the value the radio then shows and
\* returns.  A value of "URLs Only" is changed to "Images" whenever an icon
\* image is in the session.
social_media_type_value(ss) ==
    LET raw_value == IF ss.footer_social_type = Missing THEN PyStr(URLS_ONLY)
                     ELSE ss.footer_social_type
    IN  IF raw_value.ty = "int"
        THEN IF raw_value.v[1] >= 1 THEN PyStr(IMAGES) ELSE PyStr(URLS_ONLY)
        ELSE IF raw_value \notin social_media_type_options
        THEN IF has_social_images(ss) THEN PyStr(IMAGES) ELSE PyStr(URLS_ONLY)
        ELSE IF has_social_images(ss) /\ raw_value = PyStr(URLS_ONLY)
        THEN PyStr(IMAGES)
        ELSE raw_value

\* Lines 1729-1766: the icon image of platform p that goes into the footer
\* dict: in "Images" mode a file in the uploader is converted, else the
\* image kept in the session is used; in "URLs Only" mode there is none.
SocialIcon(ss, p) ==
    IF social_media_type_value(ss) = PyStr(IMAGES)
    THEN IF ss.footer_upload[p] # None
         THEN convert_to_base64(ss.footer_upload[p])
         ELSE IF Truthy(ss.footer_icon[p]) THEN ss.footer_icon[p] ELSE None
    ELSE None

\* The session after render_footer_config has run: the mode the radio
\* shows, the icon images stored by the conversions (lines 1739, 1747, 1755,
\* 1763).  The uploaders exist in "Images" mode only (lines 1628-1641); the
\* file of an uploader that a run does not render is dropped.
FooterSocialRun(ss) ==
    LET images == social_media_type_value(ss) = PyStr(IMAGES)
    IN  [ss EXCEPT
           !.footer_social_type = social_media_type_value(ss),
           !.footer_icon = [p \in PlatformSet |->
                              IF images /\ ss.footer_upload[p] # None
                              THEN convert_to_base64(ss.footer_upload[p])
                              ELSE ss.footer_icon[p]],
           !.footer_upload = [p \in PlatformSet |->
                                IF images THEN ss.footer_upload[p] ELSE None]]

\* render_footer_config (lines 1768-1802): the image and company widgets at
\* their defaults, the social fields from the session
render_footer_config(ss) ==
    [[k \in FooterKeys |-> PyStr(<<>>)] EXCEPT
        !.footer_image_base64 = None,
        !.footer_alignment = PyStr(<<"L", "e", "f", "t">>),
        !.footer_image_position = PyStr(ABOVE_TEXT),
        !.social_media_type = social_media_type_value(ss),
        !.social_image_width =
            IF social_media_type_value(ss) = PyStr(IMAGES) THEN PyInt(30) ELSE None,
        !.facebook_url = ss.footer_url["facebook"],
        !.linkedin_url = ss.footer_url["linkedin"],
        !.xing_url = ss.footer_url["xing"],
        !.instagram_url = ss.footer_url["instagram"],
        !.facebook_image_base64 = SocialIcon(ss, "facebook"),
        !.linkedin_image_base64 = SocialIcon(ss, "linkedin"),
        !.xing_image_base64 = SocialIcon(ss, "xing"),
        !.instagram_image_base64 = SocialIcon(ss, "instagram")]

\* apply_template_to_session_state, the social part (lines 2453-2471,
\* 2484-2499), for the footer_config of a stored template
apply_template_social(ss, footer_config) ==
    LET has_images == \E p \in PlatformSet : Truthy(Get(footer_config, IconKey(p), None))
        stored_type == footer_config["social_media_type"]
    IN  [ss EXCEPT
           !.footer_social_type =
               IF stored_type # Missing
               THEN IF has_images THEN PyStr(IMAGES)
                    ELSE IF stored_type \in social_media_type_options THEN stored_type
                    ELSE PyStr(URLS_ONLY)
               ELSE IF has_images THEN PyStr(IMAGES)
               ELSE ss.footer_social_type,
           !.footer_url = [p \in PlatformSet |->
                             IF footer_config[UrlKey(p)] # Missing
                             THEN footer_config[UrlKey(p)] ELSE ss.footer_url[p]],
           !.footer_icon = [p \in PlatformSet |->
                              IF Truthy(Get(footer_config, IconKey(p), None))
                              THEN footer_config[IconKey(p)] ELSE ss.footer_icon[p]]]

\* render_subscription_config (lines 1869-1877), the widgets at their defaults
render_subscription_config(ss) ==
    [[k \in SubscriptionKeys |-> PyStr(<<>>)] EXCEPT !.footer_color = PyStr(<<"#999999">>)]

\* Lines 2754-2757: the layers in form order
FormLayers(ss) == [i \in 1..ss.num_layers |-> render_layer_form(ss, i)]

\* Lines 2776-2779
FormSubscription(ss) ==
    IF ss.include_subscription THEN render_subscription_config(ss) ELSE None

\* A run that is not a press of Generate: the form is rendered and the
\* duplicate-order error shown (line 2765) when the orders collide.
Rerun(ss) ==
    [event |-> "edit", value |-> None,
     error |-> duplicate_orders(FormLayers(ss)) # {}, called |-> FALSE,
     flow |-> "none"]

(***************************************************************************)
(* MongoManager and the MongoDB server behind it.  The collection is the   *)
(* sequence of its documents in natural (insertion) order; the ObjectId    *)
(* that load_template_data pops (line 143) is left out of the documents.   *)
(***************************************************************************)
\* Lines 84-91
template_data(name, config, header_config, layers, footer_config, subscription_config) ==
    [name |-> name, config |-> config, header_config |-> header_config,
     layers |-> layers, footer_config |-> footer_config,
     subscription_config |-> subscription_config]

\* the positions of the documents a {'name': name} filter matches
Matching(templates, name) == {i \in DOMAIN templates : templates[i].name = name}

FirstOf(S) == CHOOSE i \in S : \A j \in S : i <= j

RemoveAt(seq, i) == SubSeq(seq, 1, i - 1) \o SubSeq(seq, i + 1, Len(seq))

\* what create_index("name", unique=True) requires of the documents there
UniqueNames(templates) ==
    \A i, j \in DOMAIN templates : templates[i].name = templates[j].name => i = j

\* connect without line 53: no unique index on 'name'
connect_NoIndex(mgr, db) ==
    IF db.up
    THEN [ok |-> TRUE, manager |-> [mgr EXCEPT !.collection = TRUE], mongo |-> db]
    ELSE [ok |-> FALSE, manager |-> mgr, mongo |-> db]

\* MongoManager.connect (lines 39-59): server_info() raises when the server
\* cannot be reached, before self.collection is assigned; create_index
\* raises when the collection already holds two documents of one name,
\* after it.
connect(mgr, db) ==
    IF ~db.up THEN [ok |-> FALSE, manager |-> mgr, mongo |-> db]
    ELSE IF db.unique_index \/ UniqueNames(db.templates)
    THEN [ok |-> TRUE, manager |-> [mgr EXCEPT !.collection = TRUE],
          mongo |-> [db EXCEPT !.unique_index = TRUE]]
    ELSE [ok |-> FALSE, manager |-> [mgr EXCEPT !.collection = TRUE], mongo |-> db]

\* if self.collection is None: if not self.connect(): return ...
EnsureConnected(mgr, db) ==
    IF mgr.collection THEN [ok |-> TRUE, manager |-> mgr, mongo |-> db]
    ELSE connect(mgr, db)

\* collection.find_one({'name': name}): the first match, or nothing
find_one(templates, name) ==
    IF Matching(templates, name) = {} THEN <<>>
    ELSE <<templates[FirstOf(Matching(templates, name))]>>

\* collection.find({}, {'name': 1, '_id': 0}) and the list line 117 makes
find_names(templates) == [i \in DOMAIN templates |-> templates[i].name]

\* update_one(filter, {'$set': template_data}) on a match: every field of
\* the first matching document is set
update_first(templates, doc) ==
    [templates EXCEPT ![FirstOf(Matching(templates, doc.name))] = doc]

\* delete_one({'name': name}): the first match goes
delete_one(templates, name) ==
    IF Matching(templates, name) = {} THEN templates
    ELSE RemoveAt(templates, FirstOf(Matching(templates, name)))

\* A method's outcome: its return value (ok for the bool methods, names for
\* load_templates, found for load_template_data) and the objects after it.
\* pending: the upsert found no match and its insert is still to come.
StoreResult(mgr, db, ok, pending, names, found) ==
    [manager |-> mgr, mongo |-> db, ok |-> ok, pending |-> pending,
     names |-> names, found |-> found]

\* MongoManager.save_template (lines 61-104), up to the match of the upsert
save_template(mgr, db, session, doc) ==
    LET c == EnsureConnected(mgr, db)
    IN  IF ~c.ok THEN StoreResult(c.manager, c.mongo, FALSE, FALSE, <<>>, <<>>)
        ELSE IF ~c.mongo.up                        \* except Exception
        THEN StoreResult(c.manager, c.mongo, FALSE, FALSE, <<>>, <<>>)
        ELSE IF Matching(c.mongo.templates, doc.name) # {}
        THEN StoreResult(c.manager,
                         [c.mongo EXCEPT !.templates = update_first(@, doc)],
                         TRUE, FALSE, <<>>, <<>>)
        ELSE StoreResult(c.manager,
                         [c.mongo EXCEPT !.upserts[session] = <<doc>>],
                         FALSE, TRUE, <<>>, <<>>)

\* The insert of an upsert that matched nothing.  Under the unique index a
\* document of that name inserted meanwhile makes the server either raise
\* DuplicateKeyError (lines 98-100) or retry the upsert as an update,
\* depending on its version: retried says which.
upsert_insert(mgr, db, session, retried) ==
    LET doc == db.upserts[session][1]
        cleared == [db EXCEPT !.upserts[session] = <<>>]
    IN  IF ~db.up THEN StoreResult(mgr, cleared, FALSE, FALSE, <<>>, <<>>)
        ELSE IF db.unique_index /\ Matching(db.templates, doc.name) # {}
        THEN IF retried
             THEN StoreResult(mgr, [cleared EXCEPT !.templates = update_first(@, doc)],
                              TRUE, FALSE, <<>>, <<>>)
             ELSE StoreResult(mgr, cleared, FALSE, FALSE, <<>>, <<>>)
        ELSE StoreResult(mgr, [cleared EXCEPT !.templates = Append(@, doc)],
                         TRUE, FALSE, <<>>, <<>>)

\* MongoManager.load_templates (lines 106-122)
load_templates(mgr, db) ==
    LET c == EnsureConnected(mgr, db)
    IN  IF ~c.ok \/ ~c.mongo.up
        THEN StoreResult(c.manager, c.mongo, FALSE, FALSE, <<>>, <<>>)
        ELSE StoreResult(c.manager, c.mongo, TRUE, FALSE,
                         find_names(c.mongo.templates), <<>>)

\* MongoManager.load_template_data (lines 124-147)
load_template_data(mgr, db, name) ==
    LET c == EnsureConnected(mgr, db)
    IN  IF ~c.ok \/ ~c.mongo.up
        THEN StoreResult(c.manager, c.mongo, FALSE, FALSE, <<>>, <<>>)
        ELSE StoreResult(c.manager, c.mongo, TRUE, FALSE, <<>>,
                         find_one(c.mongo.templates, name))

\* delete_template with deleted_count >= 0
delete_template_AlwaysTrue(mgr, db, name) ==
    LET c == EnsureConnected(mgr, db)
    IN  IF ~c.ok \/ ~c.mongo.up
        THEN StoreResult(c.manager, c.mongo, FALSE, FALSE, <<>>, <<>>)
        ELSE StoreResult(c.manager,
                         [c.mongo EXCEPT !.templates = delete_one(@, name)],
                         TRUE, FALSE, <<>>, <<>>)

\* MongoManager.delete_template (lines 149-168)
delete_template(mgr, db, name) ==
    LET c == EnsureConnected(mgr, db)
    IN  IF ~c.ok \/ ~c.mongo.up
        THEN StoreResult(c.manager, c.mongo, FALSE, FALSE, <<>>, <<>>)
        ELSE StoreResult(c.manager,
                         [c.mongo EXCEPT !.templates = delete_one(@, name)],
                         Matching(c.mongo.templates, name) # {}, FALSE, <<>>, <<>>)

\* the sessions (script threads) that share the singleton
Sessions == 1..MaxSessions

TemplateNames == {"weekly", "promo"}

\* the documents the sessions save
TemplateDocs ==
    { template_data(name, [email_subject |-> subject], DefaultHeader, <<>>,
                    DefaultFooter, None) :
      name \in TemplateNames, subject \in SubjectValues }

\* a server that runs, with an empty database
InitMongo ==
    [up |-> TRUE, unique_index |-> FALSE, templates |-> <<>>,
     upserts |-> [session \in Sessions |-> <<>>]]

\* MongoManager.__init__ (lines 21-37): self.collection = None
InitManager == [collection |-> FALSE]

\* saved: per name, the document of the last save that returned True and
\* was not deleted since
StoreCall(op, session, name, doc, reached, result, before, saved) ==
    [op |-> op, session |-> session, name |-> name, doc |-> doc,
     reached |-> reached, pending |-> result.pending, ok |-> result.ok,
     names |-> result.names, found |-> result.found, before |-> before,
     saved |-> saved]

NoStoreCall ==
    StoreCall("none", 0, "", <<>>, FALSE,
              StoreResult(InitManager, InitMongo, FALSE, FALSE, <<>>, <<>>),
              <<>>, [name \in TemplateNames |-> <<>>])

(***************************************************************************)
(* Calls of the engine.  The engine keeps no state: a call takes its       *)
(* arguments and returns; `call` and `ret` record the call in progress.    *)
(***************************************************************************)
Args(op, subject, header_config, layers, footer_config, subscription_config, max_width, font_family) ==
    [op |-> op, subject |-> subject, header_config |-> header_config,
     layers |-> layers, footer_config |-> footer_config,
     subscription_config |-> subscription_config, max_width |-> max_width,
     font_family |-> font_family,
     section |-> "", image_source |-> EXTERNAL_URL, existing_base64 |-> None,
     image_file |-> None]

NoCall ==
    Args("none", PyStr(<<>>), DefaultHeader, <<>>, DefaultFooter, None,
         PyInt(1000), DefaultFont)

\* the first option of the "Select Template" box (line 2644)
default_option == "---"

\* The form state of a fresh session (the widgets' default values)
InitSession ==
    [num_layers |-> 1,
     layer_order |-> [i \in 1..MaxForms |-> i],
     email_subject |-> PyStr(<<>>),
     include_subscription |-> FALSE,
     footer_social_type |-> PyStr(URLS_ONLY),
     footer_url |-> [p \in PlatformSet |-> PyStr(<<>>)],
     footer_icon |-> [p \in PlatformSet |-> None],
     footer_upload |-> [p \in PlatformSet |-> None],
     header_image_source |-> EXTERNAL_URL,
     header_image_url |-> PyStr(<<>>),
     header_image_base64 |-> None,
     header_upload |-> None,
     header_title_color |-> StyleDefault("header_title_color"),
     header_title_font_size |-> StyleDefault("header_title_font_size"),
     header_title_bold |-> StyleDefault("header_title_bold"),
     header_text_color |-> StyleDefault("header_text_color"),
     header_text_font_size |-> StyleDefault("header_text_font_size"),
     loaded_template_name |-> <<>>,
     template_selectbox |-> default_option,
     show_delete_confirmation |-> FALSE,
     template_to_delete |-> <<>>,
     delete_confirmation_checkbox |-> FALSE,
     newsletter_html |-> Missing,
     newsletter_subject |-> Missing]

InitRun ==
    [event |-> "start", value |-> None, error |-> FALSE, called |-> FALSE,
     flow |-> "none"]

Init ==
    /\ pc = "idle"
    /\ call = NoCall
    /\ ret = Ok(<<>>)
    /\ session_state = InitSession
    /\ run = InitRun
    /\ mongo = InitMongo
    /\ manager = InitManager
    /\ store_call = NoStoreCall

CallLayer ==
    /\ pc = "idle"
    /\ \E layer \in LayerInputs :
        /\ call' = [NoCall EXCEPT !.op = "_generate_layer_html", !.layers = <<layer>>]
        /\ ret' = _generate_layer_html(layer)
    /\ pc' = "called"
    /\ UNCHANGED <<session_state, run, mongo, manager, store_call>>

CallHeader ==
    /\ pc = "idle"
    /\ \E subject \in SubjectValues, header_config \in HeaderInputs :
        /\ call' = [NoCall EXCEPT !.op = "_generate_header_html",
                                  !.subject = subject,
                                  !.header_config = header_config]
        /\ ret' = _generate_header_html(subject, header_config)
    /\ pc' = "called"
    /\ UNCHANGED <<session_state, run, mongo, manager, store_call>>

CallFooter ==
    /\ pc = "idle"
    /\ \E footer_config \in FooterInputs :
        /\ call' = [NoCall EXCEPT !.op = "_generate_footer_html",
                                  !.footer_config = footer_config]
        /\ ret' = _generate_footer_html(footer_config)
    /\ pc' = "called"
    /\ UNCHANGED <<session_state, run, mongo, manager, store_call>>

CallSubscription ==
    /\ pc = "idle"
    /\ \E subscription_config \in SubscriptionInputs :
        /\ call' = [NoCall EXCEPT !.op = "_generate_subscription_html",
                                  !.subscription_config = subscription_config]
        /\ ret' = _generate_subscription_html(subscription_config)
    /\ pc' = "called"
    /\ UNCHANGED <<session_state, run, mongo, manager, store_call>>

CallGenerateHtml ==
    /\ pc = "idle"
    /\ \E subject \in SubjectValues, header_config \in DocHeaderInputs,
          layers \in DocLayerLists, footer_config \in DocFooterInputs,
          subscription_config \in DocSubscriptionInputs,
          max_width \in MaxWidthValues, font_family \in FontValues :
        /\ call' = Args("generate_html", subject, header_config, layers,
                        footer_config, subscription_config, max_width, font_family)
        /\ ret' = generate_html(subject, header_config, layers, footer_config,
                                subscription_config, max_width, font_family)
    /\ pc' = "called"
    /\ UNCHANGED <<session_state, run, mongo, manager, store_call>>

\* main() from the collected form values to the Generate button: the layers
\* in form order are validated and sorted (lines 2760-2770), then handed to
\* the button's handler (lines 2783-2808).
CallMain ==
    /\ pc = "idle"
    /\ \E layers \in LayerLists, subscription_config \in FormSubscriptionInputs :
        LET config == [email_subject |-> PyStr(SUBJECT), max_width |-> PyInt(1000),
                       font_family |-> DefaultFont]
            pressed == GenerateButton(config, DefaultHeader, sorted_layers(layers),
                                      DefaultFooter, subscription_config)
        IN  /\ call' = Args("main", config.email_subject, DefaultHeader, layers,
                            DefaultFooter, subscription_config, config.max_width,
                            config.font_family)
            /\ ret' = IF pressed.error THEN Raise("st.error") ELSE pressed.html
    /\ pc' = "called"
    /\ UNCHANGED <<session_state, run, mongo, manager, store_call>>

\* A run of main in which one section's image fields are filled in (image
\* source, URL text, an image kept in the session, a file in the uploader)
\* and Generate is pressed: the form's dict goes to generate_html.
CallUpload ==
    /\ pc = "idle"
    /\ \E section \in Sections, image_source \in ImageSourceValues,
          url_text \in UrlTextValues, existing_base64 \in ExistingBase64Values,
          image_file \in UploadedFiles \cup {None} :
        LET config == render_sidebar(InitSession)
            lf == LayerImageFields(image_source, url_text, existing_base64, image_file)
            hf == HeaderImageFields(image_source, url_text, existing_base64, image_file)
            ff == FooterImageFields(image_source, url_text, existing_base64, image_file)
            header_config ==
                IF section = "header"
                THEN [render_header_config(InitSession) EXCEPT
                        !.header_image_url = hf.image_url,
                        !.header_image_base64 = hf.image_base64]
                ELSE render_header_config(InitSession)
            layers ==
                IF section = "layer"
                THEN <<[render_layer_form(InitSession, 1) EXCEPT
                          !.image_url = lf.image_url,
                          !.image_base64 = lf.image_base64]>>
                ELSE <<render_layer_form(InitSession, 1)>>
            footer_config ==
                IF section = "footer"
                THEN [render_footer_config(InitSession) EXCEPT
                        !.footer_image_url = ff.image_url,
                        !.footer_image_base64 = ff.image_base64]
                ELSE render_footer_config(InitSession)
            pressed == GenerateButton(config, header_config, sorted_layers(layers),
                                      footer_config, None)
        IN  /\ call' = [Args("upload", config.email_subject, header_config, layers,
                              footer_config, None, config.max_width, config.font_family)
                          EXCEPT !.section = section, !.image_source = image_source,
                                 !.existing_base64 = existing_base64,
                                 !.image_file = image_file]
            /\ ret' = IF pressed.error THEN Raise("st.error") ELSE pressed.html
    /\ pc' = "called"
    /\ UNCHANGED <<session_state, run, mongo, manager, store_call>>

Return ==
    /\ pc = "called"
    /\ pc' = "idle"
    /\ call' = NoCall
    /\ ret' = Ok(<<>>)
    /\ UNCHANGED <<session_state, run, mongo, manager, store_call>>

Next ==
    \/ CallLayer
    \/ CallHeader
    \/ CallFooter
    \/ CallSubscription
    \/ CallGenerateHtml
    \/ CallMain
    \/ CallUpload
    \/ Return

Spec == Init /\ [][Next]_vars

(***************************************************************************)
(* The script run of main(): every widget event reruns main, which reads   *)
(* the form from st.session_state, validates and sorts the layers and, if  *)
(* the event is the Generate button, runs its handler.  `run` records what *)
(* the last run did: its event, whether it showed the duplicate-order      *)
(* error, and whether it called generate_html.                             *)
(***************************************************************************)
\* The run after the number of layers is set to n.  The forms of the layers
\* beyond n are not rendered: Streamlit drops the state of a keyed widget
\* that a run does not render, and `layer_order_<i>` starts again from its
\* default, the layer number (line 1899), when the form comes back.
SetNumberOfLayers ==
    /\ pc = "idle"
    /\ \E n \in 1..MaxForms :
        /\ session_state' =
              [session_state EXCEPT
                 !.num_layers = n,
                 !.layer_order = [i \in 1..MaxForms |->
                                    IF i <= n THEN session_state.layer_order[i] ELSE i]]
        /\ run' = Rerun(session_state')
    /\ UNCHANGED <<pc, call, ret, mongo, manager, store_call>>

SetLayerOrder ==
    /\ pc = "idle"
    /\ \E i \in 1..session_state.num_layers, o \in 1..MaxFormOrder :
        /\ session_state' = [session_state EXCEPT !.layer_order[i] = o]
        /\ run' = Rerun(session_state')
    /\ UNCHANGED <<pc, call, ret, mongo, manager, store_call>>

SetEmailSubject ==
    /\ pc = "idle"
    /\ \E subject \in SubjectValues :
        /\ session_state' = [session_state EXCEPT !.email_subject = subject]
        /\ run' = Rerun(session_state')
    /\ UNCHANGED <<pc, call, ret, mongo, manager, store_call>>

SetIncludeSubscription ==
    /\ pc = "idle"
    /\ \E b \in BOOLEAN :
        /\ session_state' = [session_state EXCEPT !.include_subscription = b]
        /\ run' = Rerun(session_state')
    /\ UNCHANGED <<pc, call, ret, mongo, manager, store_call>>

\* The run in which the Generate button is pressed (lines 2760-2808)
PressGenerate ==
    /\ pc = "idle"
    /\ LET config == render_sidebar(session_state)
           layers == sorted_layers(FormLayers(session_state))
           pressed == GenerateButton(config, render_header_config(session_state),
                                     layers, render_footer_config(session_state),
                                     FormSubscription(session_state))
       IN  /\ session_state' =
                IF pressed.called /\ pressed.html.exc = "none"
                THEN [FooterSocialRun(session_state) EXCEPT
                        !.newsletter_html = PyHtml(pressed.html.parts),
                        !.newsletter_subject = config.email_subject]
                ELSE FooterSocialRun(session_state)
           /\ run' = [event |-> "generate", value |-> None,
                      error |-> duplicate_orders(FormLayers(session_state)) # {},
                      called |-> pressed.called, flow |-> "none"]
    /\ UNCHANGED <<pc, call, ret, mongo, manager, store_call>>

NextApp ==
    \/ SetNumberOfLayers
    \/ SetLayerOrder
    \/ SetEmailSubject
    \/ SetIncludeSubscription
    \/ PressGenerate

SpecApp == Init /\ [][NextApp]_vars

(***************************************************************************)
(* The social-media part of the footer form: the runs of main after the    *)
(* user picks the rendering mode, types a URL, uploads an icon or loads a  *)
(* template.                                                               *)
(***************************************************************************)
\* the platforms whose widgets the events touch
FormPlatforms == {"facebook", "instagram"}

\* an icon file that converts, and one that does not
IconFiles ==
    { UploadedFile("image/png", "PNG", "RGBA", FALSE),
      UploadedFile("image/png", "PNG", "RGBA", TRUE) }

\* footer_config of the stored templates
TemplateFooters ==
    { [EmptyDict(FooterKeys) EXCEPT
          !.social_media_type = t, !.facebook_url = u, !.facebook_image_base64 = i] :
      t \in {Missing, PyStr(URLS_ONLY), PyStr(IMAGES)},
      u \in {Missing, PyStr(LINK)},
      i \in {Missing, None, PyStr(DATA_URI)} }

FooterEvent(event, value, ss) ==
    [event |-> event, value |-> value,
     error |-> duplicate_orders(FormLayers(ss)) # {}, called |-> FALSE,
     flow |-> "none"]

\* the user picks a mode in the "Social Media Type" radio
SelectSocialType ==
    /\ pc = "idle"
    /\ \E t \in social_media_type_options :
        /\ session_state' =
              FooterSocialRun([session_state EXCEPT !.footer_social_type = t])
        /\ run' = FooterEvent("social_type", t, session_state')
    /\ UNCHANGED <<pc, call, ret, mongo, manager, store_call>>

SetSocialUrl ==
    /\ pc = "idle"
    /\ \E p \in FormPlatforms, u \in SocialUrlValues :
        /\ session_state' =
              FooterSocialRun([session_state EXCEPT !.footer_url[p] = u])
        /\ run' = FooterEvent("social_url", u, session_state')
    /\ UNCHANGED <<pc, call, ret, mongo, manager, store_call>>

\* a file is put into an icon uploader, which exists in "Images" mode only
UploadIcon ==
    /\ pc = "idle"
    /\ session_state.footer_social_type = PyStr(IMAGES)
    /\ \E p \in FormPlatforms, f \in IconFiles :
        /\ session_state' =
              FooterSocialRun([session_state EXCEPT !.footer_upload[p] = f])
        /\ run' = FooterEvent("upload_icon", None, session_state')
    /\ UNCHANGED <<pc, call, ret, mongo, manager, store_call>>

\* "Load Template" (lines 2678-2685): the template is applied to the session
\* and the script reruns
LoadTemplate ==
    /\ pc = "idle"
    /\ \E footer_config \in TemplateFooters :
        /\ session_state' =
              FooterSocialRun(apply_template_social(session_state, footer_config))
        /\ run' = FooterEvent("load_template", None, session_state')
    /\ UNCHANGED <<pc, call, ret, mongo, manager, store_call>>

NextFooter ==
    \/ SelectSocialType
    \/ SetSocialUrl
    \/ UploadIcon
    \/ LoadTemplate
    \/ PressGenerate

SpecFooter == Init /\ [][NextFooter]_vars

(***************************************************************************)
(* The template store: the sessions call the MongoManager methods, and the *)
(* server goes away and comes back.                                        *)
(***************************************************************************)
Idle(session) == mongo.upserts[session] = <<>>

\* the calls reach the server when the manager is, or gets, connected and
\* the server answers
Reaches == mongo.up /\ EnsureConnected(manager, mongo).ok

StoreStep(result) ==
    /\ manager' = result.manager
    /\ mongo' = result.mongo
    /\ UNCHANGED <<pc, call, ret, session_state, run>>

SaveTemplate ==
    \E session \in Sessions, doc \in TemplateDocs :
        /\ Idle(session)
        /\ LET result == save_template(manager, mongo, session, doc)
           IN  /\ StoreStep(result)
               /\ store_call' =
                     StoreCall("save_template", session, doc.name, <<doc>>, Reaches,
                               result, mongo.templates,
                               IF result.ok
                               THEN [store_call.saved EXCEPT ![doc.name] = <<doc>>]
                               ELSE store_call.saved)

UpsertInsert ==
    \E session \in Sessions, retried \in BOOLEAN :
        /\ ~Idle(session)
        /\ LET doc == mongo.upserts[session][1]
               result == upsert_insert(manager, mongo, session, retried)
           IN  /\ StoreStep(result)
               /\ store_call' =
                     StoreCall("save_template", session, doc.name, <<doc>>, mongo.up,
                               result, mongo.templates,
                               IF result.ok
                               THEN [store_call.saved EXCEPT ![doc.name] = <<doc>>]
                               ELSE store_call.saved)

LoadTemplates ==
    \E session \in Sessions :
        /\ Idle(session)
        /\ LET result == load_templates(manager, mongo)
           IN  /\ StoreStep(result)
               /\ store_call' =
                     StoreCall("load_templates", session, "", <<>>, Reaches,
                               result, mongo.templates, store_call.saved)

LoadTemplateData ==
    \E session \in Sessions, name \in TemplateNames :
        /\ Idle(session)
        /\ LET result == load_template_data(manager, mongo, name)
           IN  /\ StoreStep(result)
               /\ store_call' =
                     StoreCall("load_template_data", session, name, <<>>, Reaches,
                               result, mongo.templates, store_call.saved)

DeleteTemplate ==
    \E session \in Sessions, name \in TemplateNames :
        /\ Idle(session)
        /\ LET result == delete_template(manager, mongo, name)
           IN  /\ StoreStep(result)
               /\ store_call' =
                     StoreCall("delete_template", session, name, <<>>, Reaches,
                               result, mongo.templates,
                               IF result.ok
                               THEN [store_call.saved EXCEPT ![name] = <<>>]
                               ELSE store_call.saved)

ServerDown ==
    /\ mongo.up
    /\ mongo' = [mongo EXCEPT !.up = FALSE]
    /\ UNCHANGED <<pc, call, ret, session_state, run, manager, store_call>>

ServerUp ==
    /\ ~mongo.up
    /\ mongo' = [mongo EXCEPT !.up = TRUE]
    /\ UNCHANGED <<pc, call, ret, session_state, run, manager, store_call>>

NextStore ==
    \/ SaveTemplate
    \/ UpsertInsert
    \/ LoadTemplates
    \/ LoadTemplateData
    \/ DeleteTemplate
    \/ ServerDown
    \/ ServerUp

SpecStore == Init /\ [][NextStore]_vars

(***************************************************************************)
(* The template section of main and the header form, in one session: the   *)
(* runs of main after the user's actions on the header's image and styling *)
(* widgets, on the "Select Template" box and on the Save and Load buttons. *)
(***************************************************************************)
Names(template_names) == {template_names[i] : i \in DOMAIN template_names}

\* Lines 2643-2669 and 2697-2705: the box falls back to "---" when its
\* selection is not listed, "---" clears the loaded template's name, and the
\* confirmation checkbox keeps its state only while the dialog is rendered
TemplateSection(ss, template_names) ==
    LET selected_template ==
            IF ss.template_selectbox \in {default_option} \cup Names(template_names)
            THEN ss.template_selectbox ELSE default_option
        dialog == ss.show_delete_confirmation
                    /\ ss.template_to_delete = <<selected_template>>
    IN  [ss EXCEPT
           !.template_selectbox = selected_template,
           !.loaded_template_name = IF selected_template = default_option THEN <<>> ELSE @,
           !.delete_confirmation_checkbox = IF dialog THEN @ ELSE FALSE]

\* a run of main to its end in which no button is pressed
MainRun(ss, template_names) ==
    FooterSocialRun(HeaderRun(TemplateSection(ss, template_names)))

\* apply_template_to_session_state (lines 2230-2516) for the name, the
\* sidebar, the header's image and styling, the layers' orders and the
\* social part of the footer
apply_template_to_session_state(ss, template) ==
    LET config == template.config
        applied == apply_template_header(
                       apply_template_social(ss, template.footer_config),
                       template.header_config)
    IN  [applied EXCEPT
           !.loaded_template_name = <<template.name>>,
           !.email_subject =
               IF "email_subject" \in DOMAIN config
               THEN IF config.email_subject = None THEN PyStr(<<>>)
                    ELSE config.email_subject
               ELSE @,
           !.num_layers =
               IF "num_layers" \in DOMAIN config THEN config.num_layers ELSE @,
           !.include_subscription =
               IF "include_subscription" \in DOMAIN config
               THEN config.include_subscription ELSE @,
           !.layer_order =
               [i \in DOMAIN @ |->
                   IF i <= Len(template.layers) /\ Has(template.layers[i], "order")
                   THEN IF template.layers[i]["order"] = None THEN i
                        ELSE template.layers[i]["order"].v[1]
                   ELSE @[i]]]

\* save_template to its return: the one session's upsert is not interleaved
save_template_whole(mgr, db, doc) ==
    LET matched == save_template(mgr, db, 1, doc)
    IN  IF matched.pending
        THEN upsert_insert(matched.manager, matched.mongo, 1, FALSE)
        ELSE matched

\* the styling a user sets a widget to, besides its default
StyleOther(widget) ==
    CASE widget = "header_title_color" -> PyStr(<<"#ff0000">>)
      [] widget = "header_title_font_size" -> PyInt(32)
      [] widget = "header_title_bold" -> PyFalse
      [] widget = "header_text_color" -> PyStr(<<"#ff0000">>)
      [] widget = "header_text_font_size" -> PyInt(18)

\* the styling widgets that are not at their defaults
Styled(ss) == {w \in StyleWidgets : ss[w] # StyleDefault(w)}

HeaderFiles ==
    {UploadedFile("image/png", "PNG", "RGBA", FALSE),
     UploadedFile("image/jpeg", "JPEG", "RGB", FALSE), None}
HeaderUrlValues == {PyStr(<<>>), PyStr(URL)}

\* run.flow observes how far the steps to a deletion have come for the
\* selected template since it was selected: "none", "delete_pressed" (Delete
\* Template pressed) or "ticked" (and the confirmation ticked).  A change of
\* the selection starts over.
FlowAfter(ss) ==
    IF ss.template_selectbox # session_state.template_selectbox THEN "none"
    ELSE run.flow

\* a widget event: main runs with the widget's new value
FormEvent(event, value, ss) ==
    LET listed == load_templates(manager, mongo)
    IN  /\ session_state' = MainRun(ss, listed.names)
        /\ manager' = listed.manager
        /\ mongo' = listed.mongo
        /\ run' = [event |-> event, value |-> value, error |-> FALSE, called |-> FALSE,
                   flow |-> FlowAfter(session_state')]
        /\ UNCHANGED <<pc, call, ret, store_call>>

SetHeaderStyle ==
    /\ pc = "idle"
    /\ \E w \in StyleWidgets : \E v \in {StyleDefault(w), StyleOther(w)} :
        /\ Cardinality(Styled([session_state EXCEPT ![w] = v])) <= MaxStyled
        /\ FormEvent("header_style", v, [session_state EXCEPT ![w] = v])

SelectImageSource ==
    /\ pc = "idle"
    /\ \E image_source \in ImageSourceValues :
        FormEvent("image_source", PyStr(image_source),
                  [session_state EXCEPT !.header_image_source = image_source])

\* the URL field exists when the source is "External URL"
TypeImageUrl ==
    /\ pc = "idle"
    /\ session_state.header_image_source = EXTERNAL_URL
    /\ \E u \in HeaderUrlValues :
        FormEvent("image_url", u, [session_state EXCEPT !.header_image_url = u])

\* a file is put into the header's uploader, or taken out of it
UploadHeaderImage ==
    /\ pc = "idle"
    /\ session_state.header_image_source = UPLOAD_IMAGE
    /\ \E f \in HeaderFiles :
        FormEvent("upload_header", None, [session_state EXCEPT !.header_upload = f])

SelectTemplate ==
    /\ pc = "idle"
    /\ \E t \in {default_option} \cup Names(load_templates(manager, mongo).names) :
        FormEvent("select_template", PyStr(<<t>>),
                  [session_state EXCEPT !.template_selectbox = t])

\* "Save Template" / "Update Template" (lines 2625-2638) with a name typed,
\* or with the loaded template's name in the disabled field, and the save
\* at the end of the same run (lines 2811-2832), which reruns on success
PressSaveTemplate ==
    /\ pc = "idle"
    /\ \E typed \in TemplateNames :
        LET listed == load_templates(manager, mongo)
            ss == session_state
            template_name == IF ss.loaded_template_name # <<>>
                             THEN ss.loaded_template_name[1] ELSE typed
            after == MainRun(ss, listed.names)
            doc == template_data(template_name, render_sidebar(ss),
                                 render_header_config(ss),
                                 sorted_layers(FormLayers(ss)),
                                 render_footer_config(ss), FormSubscription(ss))
            saved == save_template_whole(listed.manager, listed.mongo, doc)
        IN  /\ session_state' =
                  IF saved.ok
                  THEN MainRun(after, load_templates(saved.manager, saved.mongo).names)
                  ELSE after
            /\ manager' = saved.manager
            /\ mongo' = saved.mongo
            /\ run' = [event |-> "save_template", value |-> PyStr(<<template_name>>),
                       error |-> ~saved.ok, called |-> saved.ok,
                       flow |-> FlowAfter(session_state')]
    /\ UNCHANGED <<pc, call, ret, store_call>>

\* "Load Template" (lines 2677-2687), enabled when a template is selected:
\* the stored template is applied and the script reruns
PressLoadTemplate ==
    /\ pc = "idle"
    /\ LET listed == load_templates(manager, mongo)
           shown == TemplateSection(session_state, listed.names)
           selected_template == shown.template_selectbox
           loaded == load_template_data(listed.manager, listed.mongo, selected_template)
       IN  /\ selected_template # default_option
           /\ session_state' =
                 IF loaded.found # <<>>
                 THEN MainRun(apply_template_to_session_state(shown, loaded.found[1]),
                              load_templates(loaded.manager, loaded.mongo).names)
                 ELSE MainRun(session_state, listed.names)
           /\ manager' = loaded.manager
           /\ mongo' = loaded.mongo
           /\ run' = [event |-> "load_template", value |-> PyStr(<<selected_template>>),
                      error |-> loaded.found = <<>>, called |-> loaded.found # <<>>,
                      flow |-> FlowAfter(session_state')]
    /\ UNCHANGED <<pc, call, ret, store_call>>

\* Line 2697: the confirmation dialog is rendered
DialogShown(ss) ==
    ss.show_delete_confirmation /\ ss.template_to_delete = <<ss.template_selectbox>>

\* "Delete Template" (lines 2690-2694), enabled when a template is selected
PressDeleteTemplate ==
    /\ pc = "idle"
    /\ LET listed == load_templates(manager, mongo)
           shown == TemplateSection(session_state, listed.names)
           selected_template == shown.template_selectbox
       IN  /\ selected_template # default_option
           /\ session_state' =
                 MainRun([shown EXCEPT !.show_delete_confirmation = TRUE,
                                       !.template_to_delete = <<selected_template>>,
                                       !.delete_confirmation_checkbox =
                                           session_state.delete_confirmation_checkbox],
                         listed.names)
           /\ manager' = listed.manager
           /\ mongo' = listed.mongo
           /\ run' = [event |-> "delete_template", value |-> PyStr(<<selected_template>>),
                      error |-> FALSE, called |-> FALSE,
                      flow |-> IF session_state'.delete_confirmation_checkbox
                               THEN "ticked" ELSE "delete_pressed"]
    /\ UNCHANGED <<pc, call, ret, store_call>>

\* the checkbox of the dialog (lines 2702-2705) is ticked or cleared
TickConfirmation ==
    /\ pc = "idle"
    /\ DialogShown(TemplateSection(session_state, load_templates(manager, mongo).names))
    /\ \E ticked \in BOOLEAN :
        LET listed == load_templates(manager, mongo)
        IN  /\ session_state' =
                  MainRun([session_state EXCEPT !.delete_confirmation_checkbox = ticked],
                          listed.names)
            /\ manager' = listed.manager
            /\ mongo' = listed.mongo
            /\ run' = [event |-> "tick", value |-> IF ticked THEN PyTrue ELSE PyFalse,
                       error |-> FALSE, called |-> FALSE,
                       flow |-> IF FlowAfter(session_state') = "none" THEN "none"
                                ELSE IF ticked THEN "ticked" ELSE "delete_pressed"]
    /\ UNCHANGED <<pc, call, ret, store_call>>

\* "Confirm Delete" (lines 2710-2728), enabled when the checkbox is ticked.
\* After a successful deletion line 2724 assigns to the key of the select
\* box, a widget this run has created: st.session_state raises
\* StreamlitAPIException there, the run ends and st.rerun is not reached.
PressConfirmDelete ==
    /\ pc = "idle"
    /\ LET listed == load_templates(manager, mongo)
           shown == TemplateSection(session_state, listed.names)
           selected_template == shown.template_selectbox
           deleted == delete_template(listed.manager, listed.mongo, selected_template)
       IN  /\ DialogShown(shown)
           /\ shown.delete_confirmation_checkbox
           /\ session_state' =
                 IF deleted.ok
                 THEN [shown EXCEPT
                         !.show_delete_confirmation = FALSE,
                         !.template_to_delete = <<>>,
                         !.loaded_template_name =
                             IF @ = <<selected_template>> THEN <<>> ELSE @]
                 ELSE MainRun(session_state, listed.names)
           /\ manager' = deleted.manager
           /\ mongo' = deleted.mongo
           /\ run' = [event |-> "confirm_delete", value |-> PyStr(<<selected_template>>),
                      error |-> TRUE, called |-> deleted.ok,
                      flow |-> IF deleted.ok THEN "none" ELSE run.flow]
    /\ UNCHANGED <<pc, call, ret, store_call>>

\* "Cancel" (lines 2731-2735)
PressCancel ==
    /\ pc = "idle"
    /\ LET listed == load_templates(manager, mongo)
           shown == TemplateSection(session_state, listed.names)
       IN  /\ DialogShown(shown)
           /\ session_state' =
                 MainRun([shown EXCEPT !.show_delete_confirmation = FALSE,
                                       !.template_to_delete = <<>>,
                                       !.delete_confirmation_checkbox =
                                           session_state.delete_confirmation_checkbox],
                         listed.names)
           /\ manager' = listed.manager
           /\ mongo' = listed.mongo
           /\ run' = [event |-> "cancel_delete", value |-> None,
                      error |-> FALSE, called |-> FALSE, flow |-> "none"]
    /\ UNCHANGED <<pc, call, ret, store_call>>

\* the deletion of templates
NextDelete ==
    \/ SelectTemplate
    \/ PressSaveTemplate
    \/ PressLoadTemplate
    \/ PressDeleteTemplate
    \/ TickConfirmation
    \/ PressConfirmDelete
    \/ PressCancel

SpecDelete == Init /\ [][NextDelete]_vars

\* the styling of the header, saved and loaded
NextHeaderStyle ==
    \/ SetHeaderStyle
    \/ SelectTemplate
    \/ PressSaveTemplate
    \/ PressLoadTemplate

SpecHeaderStyle == Init /\ [][NextHeaderStyle]_vars

\* the image of the header, saved and loaded
NextHeaderImage ==
    \/ SelectImageSource
    \/ TypeImageUrl
    \/ UploadHeaderImage
    \/ SelectTemplate
    \/ PressSaveTemplate
    \/ PressLoadTemplate

SpecHeaderImage == Init /\ [][NextHeaderImage]_vars

(***************************************************************************)
(* Properties                                                              *)
(***************************************************************************)
Returned(op) == pc = "called" /\ call.op = op /\ ret.exc = "none"

\* positions of the tokens of element el
At(parts, el) == {i \in DOMAIN parts : parts[i].el = el}

\* the texts of the layer titles (h2) in document order
TitleSeq(parts) ==
    LET h2 == SelectSeq(parts, LAMBDA t : t.el = "h2" /\ t.role = "title")
    IN  [i \in DOMAIN h2 |-> h2[i].val]

LayerRows(parts) == {i \in DOMAIN parts : parts[i].role = "layer-row"}

OrderOf(layer) == layer.order.v[1]

DistinctOrders(layers) ==
    \A i, j \in DOMAIN layers : i # j => OrderOf(layers[i]) # OrderOf(layers[j])

\* the order of the layer of `layers` whose title is t
OrderOfTitle(layers, t) ==
    OrderOf(layers[CHOOSE i \in DOMAIN layers : layers[i].title.v = t])

Ascending(layers, titles) ==
    \A k, l \in DOMAIN titles :
        k < l => OrderOfTitle(layers, titles[k]) < OrderOfTitle(layers, titles[l])

OneFragmentPerLayer(layers, parts) ==
    /\ Cardinality(LayerRows(parts)) = Len(layers)
    /\ Len(TitleSeq(parts)) = Len(layers)
    /\ {TitleSeq(parts)[k] : k \in DOMAIN TitleSeq(parts)}
          = {layers[i].title.v : i \in DOMAIN layers}

BothSources(url, embedded) ==
    /\ url.ty = "str" /\ strip(url.v) # <<>>
    /\ embedded.ty = "str" /\ embedded.v # <<>>

\* C2: a layer that carries both an image URL that is non-blank after
\* trimming and an embedded image renders its <img> with the trimmed URL as
\* src, never the data URI.
C2_LayerUrlWins ==
    Returned("_generate_layer_html") =>
        LET layer == call.layers[1]
        IN  BothSources(layer.image_url, layer.image_base64) =>
                \A i \in At(ret.parts, "img") :
                    /\ ret.parts[i].val = strip(layer.image_url.v)
                    /\ ret.parts[i].val # layer.image_base64.v

C2_Witness ==
    /\ Returned("_generate_layer_html")
    /\ call.layers[1].image_url = PyStr(PADDED_URL)
    /\ call.layers[1].image_base64 = PyStr(DATA_URI)
    /\ \E i \in At(ret.parts, "img") : ret.parts[i].val = URL

\* C3: in the header and in the footer, when both an external image URL
\* (non-blank after trimming) and an embedded image are present, the <img>
\* src is the URL; the embedded image is used only when the URL is absent
\* or blank.
C3_SectionUrlWins ==
    /\ Returned("_generate_header_html") =>
        (BothSources(call.header_config.header_image_url,
                     call.header_config.header_image_base64) =>
            \A i \in At(ret.parts, "img") :
                ret.parts[i].val # call.header_config.header_image_base64.v)
    /\ Returned("_generate_footer_html") =>
        (BothSources(call.footer_config.footer_image_url,
                     call.footer_config.footer_image_base64) =>
            \A i \in At(ret.parts, "img") :
                ret.parts[i].val # call.footer_config.footer_image_base64.v)

NoImageSource(url, embedded) ==
    /\ url.ty # "str" \/ strip(url.v) = <<>>
    /\ ~(embedded.ty = "str" /\ embedded.v # <<>>)

\* the cells of a layer's inner row: every <td> but the layer's container
InnerCells(parts) ==
    {i \in DOMAIN parts :
        parts[i].el = "td" /\ parts[i].ty = "open" /\ parts[i].role # "layer-container"}

\* the </td> that closes the cell opened at i
CloseOf(parts, i) ==
    CHOOSE j \in DOMAIN parts :
        /\ j > i /\ parts[j] = Close("td")
        /\ \A k \in (i + 1)..(j - 1) : parts[k] # Close("td")

ImageCells(parts) ==
    {i \in InnerCells(parts) :
        \E k \in i..CloseOf(parts, i) : parts[k].el = "img"}

TextCells(parts) == InnerCells(parts) \ ImageCells(parts)

\* the strings of the text block: headings, paragraph, HTML content
TextTokens(parts) ==
    {k \in DOMAIN parts : parts[k].role \in {"title", "subtitle", "subtitle2", "content"}}

C4_Layer ==
    Returned("_generate_layer_html") =>
        LET layer == call.layers[1]
        IN  NoImageSource(layer.image_url, layer.image_base64) =>
                /\ At(ret.parts, "img") = {}
                /\ Cardinality(InnerCells(ret.parts)) = 1
                /\ \A i \in InnerCells(ret.parts) : ret.parts[i].role = "text-cell-full"

C4_Header ==
    Returned("_generate_header_html") =>
        (NoImageSource(call.header_config.header_image_url,
                       call.header_config.header_image_base64)
            => At(ret.parts, "img") = {})

C4_Footer ==
    Returned("_generate_footer_html") =>
        (NoImageSource(call.footer_config.footer_image_url,
                       call.footer_config.footer_image_base64)
            => At(ret.parts, "img") = {})

\* C4: in a layer, the header and the footer alike, when the image URL is
\* absent or blank after trimming (whitespace-only included) and there is no
\* embedded image, the section holds no <img>; such a layer renders exactly
\* one full-width text cell.
C4_NoSourceNoImage == C4_Layer /\ C4_Header /\ C4_Footer

\* C5: generate_html is total: for every configuration, with optional fields
\* missing or None and numbers out of range, it returns a complete document
\* and raises nothing.
C5_GenerateHtmlTotal ==
    (pc = "called" /\ call.op = "generate_html") =>
        /\ ret.exc = "none"
        /\ ret.parts # <<>>
        /\ ret.parts[1].el = "!DOCTYPE"
        /\ ret.parts[Len(ret.parts)] = Close("html")

SubscriptionBlock(parts) ==
    {i \in DOMAIN parts : parts[i].role = "subscription-content"}

\* C7: the subscription block is in the output if and only if a subscription
\* configuration is supplied (is not None), whatever its fields hold.
C7_SubscriptionIffSupplied ==
    Returned("generate_html") =>
        (SubscriptionBlock(ret.parts) # {} <=> call.subscription_config # None)

PreHeaderRows(parts) == {i \in DOMAIN parts : parts[i].role = "pre-header-row"}

\* the value of a str field that may be missing from the dict
TextOf(x) == IF x.ty = "str" THEN x.v ELSE <<>>

\* C8: the hidden pre-header row is emitted if and only if the pre-header
\* text is non-empty after trimming; when emitted it is the first row of the
\* header fragment.
C8_PreHeaderIffNonBlank ==
    Returned("_generate_header_html") =>
        LET nonblank == strip(TextOf(call.header_config.pre_header_text)) # <<>>
            rows == PreHeaderRows(ret.parts)
        IN  /\ nonblank <=> rows # {}
            /\ Cardinality(rows) <= 1
            /\ rows # {} =>
                /\ rows = {1}
                /\ ret.parts[3].el = "span"
                /\ ret.parts[3].val = strip(call.header_config.pre_header_text.v)
            /\ rows = {} => \A i \in DOMAIN ret.parts : ret.parts[i].el # "span"

C8_Witness ==
    /\ Returned("_generate_header_html")
    /\ call.header_config.pre_header_text = PyStr(<<"\t", "Preview", " ">>)
    /\ call.header_config.header_image_base64 = PyStr(DATA_URI)
    /\ PreHeaderRows(ret.parts) = {1}

ResolvedLayerImage(layer) ==
    ~NoImageSource(layer.image_url, layer.image_base64)

AlignedRight(layer) ==
    layer.image_alignment \in {PyStr(RIGHT), PyStr(<<"R", "i", "g", "h", "t">>)}

AlignedLeft(layer) ==
    layer.image_alignment \in {PyStr(LEFT), PyStr(<<"L", "e", "f", "t">>)}

\* the cell opened at i holds the token at k
Holds(parts, i, k) == i < k /\ k < CloseOf(parts, i)

\* C9: a layer with a resolved image: with alignment right the text cell
\* precedes the image cell, with alignment left the image cell precedes the
\* text cell; either way exactly one image cell and one text cell are
\* emitted.
C9_AlignmentOrdersCells ==
    Returned("_generate_layer_html") =>
        LET layer == call.layers[1]
            img == ImageCells(ret.parts)
            txt == TextCells(ret.parts)
        IN  (ResolvedLayerImage(layer) /\ (AlignedRight(layer) \/ AlignedLeft(layer))) =>
                /\ Cardinality(img) = 1
                /\ Cardinality(txt) = 1
                /\ Cardinality(At(ret.parts, "img")) = 1
                /\ \A i \in img, t \in txt :
                    /\ AlignedRight(layer) => t < i
                    /\ AlignedLeft(layer) => i < t
                    /\ \A k \in TextTokens(ret.parts) : Holds(ret.parts, t, k)

C9_Witness ==
    /\ Returned("_generate_layer_html")
    /\ call.layers[1].image_alignment = PyStr(<<"R", "i", "g", "h", "t">>)
    /\ call.layers[1].image_base64 = PyStr(DATA_URI)
    /\ call.layers[1].title = PyStr(<<"Welcome">>)
    /\ \E t \in TextCells(ret.parts), i \in ImageCells(ret.parts) : t < i

LinkOf(layer) == strip(TextOf(layer.link_url))

\* C10: when a layer's link URL is non-empty after trimming, the content of
\* every cell the layer emits is enclosed in an anchor of its own with that
\* href, the anchor lying inside the cell; when the link URL is blank the
\* layer emits no anchor.
C10_LinkWrapsEachCell ==
    Returned("_generate_layer_html") =>
        LET layer == call.layers[1]
            cells == InnerCells(ret.parts)
        IN  IF LinkOf(layer) # <<>>
            THEN /\ \A i \in cells :
                        /\ ret.parts[i + 1] = OpenV("a", "layer-link", LinkOf(layer))
                        /\ ret.parts[CloseOf(ret.parts, i) - 1] = Close("a")
                        /\ \A k \in (i + 2)..(CloseOf(ret.parts, i) - 2) :
                              ret.parts[k].el # "a"
                 /\ Cardinality(At(ret.parts, "a")) = 2 * Cardinality(cells)
                 /\ \A k \in At(ret.parts, "img") \cup TextTokens(ret.parts) :
                        \E i \in cells : i + 1 < k /\ k < CloseOf(ret.parts, i) - 1
            ELSE At(ret.parts, "a") = {}

C10_Witness ==
    /\ Returned("_generate_layer_html")
    /\ call.layers[1].link_url = PyStr(PADDED_LINK)
    /\ call.layers[1].image_url = PyStr(URL)
    /\ call.layers[1].content = PyStr(PLAIN_TEXT)
    /\ Cardinality(InnerCells(ret.parts)) = 2
    /\ Cardinality({k \in At(ret.parts, "a") : ret.parts[k].val = LINK}) = 2

HasDuplicateOrder(ss) ==
    \E i, j \in 1..ss.num_layers : i # j /\ ss.layer_order[i] = ss.layer_order[j]

\* C6: when layers have duplicate order values, a press of Generate does not
\* call generate_html, an error is reported, and the stored document
\* (newsletter_html, newsletter_subject) keeps its previous value.
C6_DuplicatesBlockGenerate ==
    [][ (run'.event = "generate" /\ HasDuplicateOrder(session_state')) =>
            /\ ~run'.called
            /\ run'.error
            /\ session_state'.newsletter_html = session_state.newsletter_html
            /\ session_state'.newsletter_subject = session_state.newsletter_subject
      ]_vars

\* Generate pressed on duplicate orders while a document generated earlier,
\* under another subject, is stored
C6_Witness ==
    /\ run.event = "generate"
    /\ HasDuplicateOrder(session_state)
    /\ run.error /\ ~run.called
    /\ session_state.newsletter_html.ty = "html"
    /\ session_state.newsletter_subject # session_state.email_subject

\* positions of the strings with the given role
RolePos(parts, role) == {i \in DOMAIN parts : parts[i].role = role}

\* C11: the assembled document is, in this order and with nothing in
\* between: doctype and head with the opening of the outer table shell, the
\* header fragment, the layer fragments, the footer fragment, the
\* subscription fragment (only if supplied), the closing table/body/html
\* tags; it starts with <!DOCTYPE html> and ends with </html>.
C11_DocumentOrder ==
    Returned("generate_html") =>
        LET p == ret.parts
            n == Len(p)
            shell == RolePos(p, "inner-table")
            foot == RolePos(p, "footer-row")
            sub == RolePos(p, "subscription-separator-row")
            header == _generate_header_html(call.subject, call.header_config).parts
            body == LayersHtml(call.layers).parts
            footer == _generate_footer_html(call.footer_config).parts
        IN  /\ n >= 6
            /\ p[1] = Tok("!DOCTYPE", "void", "doctype", <<>>)
            /\ p[n] = Close("html")
            /\ Cardinality(shell) = 1
            /\ Cardinality(foot) = 1
            /\ Cardinality(sub) <= 1
            /\ sub # {} <=> SubscriptionSupplied(call.subscription_config)
            /\ \A s \in shell, f \in foot :
                  LET tail == n - 5
                      subStart == IF sub = {} THEN tail ELSE CHOOSE x \in sub : TRUE
                  IN  /\ \A i \in 1..s :
                            p[i].role \in {"doctype", "html", "head", "charset", "viewport",
                                           "title", "google-fonts", "", "body",
                                           "outer-table", "outer-row", "outer-cell",
                                           "inner-table"}
                      /\ SubSeq(p, s + 1, s + Len(header)) = header
                      /\ SubSeq(p, s + Len(header) + 1, f - 1) = body
                      /\ SubSeq(p, f, subStart - 1) = footer
                      /\ sub # {} =>
                            SubSeq(p, subStart, tail - 1)
                              = _generate_subscription_html(call.subscription_config).parts
                      /\ SubSeq(p, tail, n)
                            = << Close("table"), Close("td"), Close("tr"),
                                 Close("table"), Close("body"), Close("html") >>

\* a document of several layers with a subscription block
C11_Witness ==
    /\ Returned("generate_html")
    /\ Len(call.layers) = MaxLayers
    /\ RolePos(ret.parts, "subscription-separator-row") # {}
    /\ Cardinality(RolePos(ret.parts, "layer-row")) = MaxLayers

FailedUpload ==
    /\ pc = "called" /\ call.op = "upload"
    /\ call.image_source = UPLOAD_IMAGE
    /\ call.image_file.ty = "UploadedFile"
    /\ call.image_file.fails

\* the fragment of the section whose image fields the run filled in
SectionFragment ==
    CASE call.section = "header" ->
            _generate_header_html(call.subject, call.header_config).parts
      [] call.section = "layer" -> _generate_layer_html(call.layers[1]).parts
      [] call.section = "footer" -> _generate_footer_html(call.footer_config).parts

\* C12: when the conversion of an uploaded file fails, convert_to_base64
\* raises nothing and yields no image (None); the section the file was
\* uploaded to is rendered without <img>, a layer as one full-width text
\* cell, and the document is produced completely.
C12_FailedConversionNoImage ==
    FailedUpload =>
        /\ convert_to_base64(call.image_file) = None
        /\ ret.exc = "none"
        /\ At(SectionFragment, "img") = {}
        /\ At(ret.parts, "img") = {}
        /\ call.section = "layer" =>
              /\ Cardinality(InnerCells(SectionFragment)) = 1
              /\ \A i \in InnerCells(SectionFragment) :
                    SectionFragment[i].role = "text-cell-full"
        /\ ret.parts[1].el = "!DOCTYPE"
        /\ ret.parts[Len(ret.parts)] = Close("html")
        /\ RolePos(ret.parts, "header-spacer-row") # {}
        /\ RolePos(ret.parts, "layer-row") # {}
        /\ RolePos(ret.parts, "footer-row") # {}

\* a file that cannot be converted, uploaded to a layer whose session holds
\* an image from before
C12_Witness ==
    /\ FailedUpload
    /\ call.section = "layer"
    /\ call.existing_base64 = PyStr(DATA_URI)
    /\ ret.exc = "none"
    /\ Cardinality(InnerCells(SectionFragment)) = 1

FooterImages(parts) == RolePos(parts, "footer-image") \cap At(parts, "img")

\* the placement is one of the two strings the engine compares with
KnownPlacement(footer_config) ==
    Get(footer_config, "footer_image_position", PyStr(ABOVE_TEXT))
        \in {PyStr(ABOVE_TEXT), PyStr(AFTER_TEXT)}

\* the footer image is at its place: once, with the resolved source, on the
\* side of the company block that the placement names, before the social
\* block
FooterImagePlaced(footer_config, parts) ==
    LET imgs == FooterImages(parts)
        company == RolePos(parts, "company-info")
        social == RolePos(parts, "social")
        position == Get(footer_config, "footer_image_position", PyStr(ABOVE_TEXT))
    IN  /\ Cardinality(imgs) = 1
        /\ Cardinality(At(parts, "img")) = 1
        /\ \A i \in imgs :
              /\ parts[i].val = FooterImageSrc(footer_config).v
              /\ position = PyStr(ABOVE_TEXT) => \A c \in company : i < c
              /\ position = PyStr(AFTER_TEXT) => \A c \in company : c < i
              /\ \A k \in social : i < k

\* C13: whenever the footer has a resolved image source, the footer fragment
\* holds that image exactly once, for every value of the placement setting:
\* before the company block when the placement is "above text", after it
\* when "after text", and always before the social-links block.
C13_FooterImageOnce ==
    (Returned("_generate_footer_html") /\ Truthy(FooterImageSrc(call.footer_config))) =>
        FooterImagePlaced(call.footer_config, ret.parts)

\* the same for the two placements the engine knows, and no image otherwise
C13_KnownPlacementOnly ==
    (Returned("_generate_footer_html") /\ Truthy(FooterImageSrc(call.footer_config))) =>
        IF KnownPlacement(call.footer_config)
        THEN FooterImagePlaced(call.footer_config, ret.parts)
        ELSE At(ret.parts, "img") = {}

NonEmpty(x) == x.ty = "str" /\ x.v # <<>>

\* the platforms whose URL and icon image are both non-empty, in the fixed
\* order
IconPlatforms(footer_config) ==
    SelectSeq(Platforms,
              LAMBDA p : NonEmpty(footer_config[UrlKey(p)])
                         /\ NonEmpty(footer_config[IconKey(p)]))

\* the icon and spacer cells of the fragment, in document order
SocialCells(parts) ==
    SelectSeq(parts, LAMBDA t : t.role \in {"social-icon", "social-spacer"})

IconMode == Returned("_generate_footer_html")
            /\ call.footer_config.social_media_type = PyStr(IMAGES)

\* C14: in icon mode a platform's icon cell is emitted if and only if its
\* URL and its icon image are both non-empty; the icons keep the order
\* Facebook, LinkedIn, Xing, Instagram; there is exactly one spacer cell
\* between two consecutive icons and none before the first or after the
\* last.
C14_IconsAndSpacers ==
    IconMode =>
        LET present == IconPlatforms(call.footer_config)
            cells == SocialCells(ret.parts)
        IN  /\ Len(cells) = IF present = <<>> THEN 0 ELSE 2 * Len(present) - 1
            /\ \A k \in DOMAIN cells :
                  IF k % 2 = 1
                  THEN /\ cells[k].role = "social-icon"
                       /\ cells[k].val[1] = PlatformName(present[(k + 1) \div 2])
                  ELSE cells[k].role = "social-spacer"

\* first and last platform only: two icons, one spacer
C14_Witness ==
    /\ IconMode
    /\ IconPlatforms(call.footer_config) = <<"facebook", "instagram">>
    /\ NonEmpty(call.footer_config.xing_url)
    /\ Len(SocialCells(ret.parts)) = 3

\* the footer fragment of the document the form would generate now
FormFooter == _generate_footer_html(render_footer_config(session_state)).parts

SelectedUrlsOnly ==
    /\ run.event = "social_type"
    /\ run.value = PyStr(URLS_ONLY)
    /\ has_social_images(session_state)

\* C15: with icon images in the form state (after an upload or a template
\* load) the user can still select "URLs Only": after the run that follows
\* the selection the mode is "URLs Only" and the footer is rendered with
\* text anchors, not icons.
C15_UrlsOnlyOverridable ==
    SelectedUrlsOnly =>
        /\ session_state.footer_social_type = PyStr(URLS_ONLY)
        /\ RolePos(FormFooter, "social-icon") = {}

\* what the form does: while an icon image is in the session the mode is
\* "Images" after every run, whatever the user selected
C15_IconsForceImages ==
    has_social_images(session_state) =>
        session_state.footer_social_type = PyStr(IMAGES)

\* without icon images the selection is kept
C15_SelectionKeptWithoutIcons ==
    (run.event = "social_type" /\ ~has_social_images(session_state)) =>
        session_state.footer_social_type = run.value

\* the positions at which tok occurs in s
Occurrences(s, tok) ==
    {i \in 1..(Len(s) - Len(tok) + 1) : SubSeq(s, i, i + Len(tok) - 1) = tok}

\* C16: every occurrence of {company} in the copyright text of the
\* subscription is replaced by the company name of the subscription (the
\* default name when the configuration has none); a copyright text without
\* the placeholder is rendered unchanged.
C16_CompanySubstituted ==
    (Returned("_generate_subscription_html")
        /\ call.subscription_config.copyright_text.ty = "str") =>
        LET cfg == call.subscription_config
            name == Get(cfg, "company_name", PyStr(DEFAULT_COMPANY)).v
            raw == cfg.copyright_text.v
            occ == Occurrences(raw, COMPANY_TOKEN)
            shift == Len(name) - Len(COMPANY_TOKEN)
            rows == RolePos(ret.parts, "copyright")
            out == IF rows = {} THEN <<>> ELSE ret.parts[CHOOSE i \in rows : TRUE].val
        IN  /\ Cardinality(rows) <= 1
            /\ rows = {} <=> out = <<>>
            /\ occ = {} => out = raw
            /\ Occurrences(out, COMPANY_TOKEN) = {}
            /\ Len(out) = Len(raw) + Cardinality(occ) * shift
            /\ \A i \in occ :
                  LET before == Cardinality({k \in occ : k < i})
                      at == i + before * shift
                  IN  SubSeq(out, at, at + Len(name) - 1) = name

C16_Witness ==
    /\ Returned("_generate_subscription_html")
    /\ call.subscription_config.copyright_text = PyStr(COPYRIGHT)
    /\ call.subscription_config.company_name = PyStr(<<"Acme">>)
    /\ \E i \in RolePos(ret.parts, "copyright") :
          ret.parts[i].val = <<"(c) ", "Acme", " & ", "Acme">>

HeaderRowRoles ==
    << "pre-header-row", "header-image-row", "header-spacer-row",
       "header-title-row", "header-text-row" >>

HeaderRowsOf(parts, k) == RolePos(parts, HeaderRowRoles[k])

\* C17: the rows of the header fragment are, in this relative order, the
\* pre-header row, the image row, the spacer row, the title row and the body
\* row, each at most once and no other row; the pre-header row is there only
\* for a non-blank pre-header text, the image row only for a resolved image
\* source, the body row only for a non-blank body text; the spacer row is
\* there exactly once for every header configuration.
C17_HeaderRowOrder ==
    Returned("_generate_header_html") =>
        LET p == ret.parts
            cfg == call.header_config
        IN  /\ \A k \in 1..5 : Cardinality(HeaderRowsOf(p, k)) <= 1
            /\ Cardinality(HeaderRowsOf(p, 3)) = 1
            /\ \A j, k \in 1..5 :
                  j < k => \A a \in HeaderRowsOf(p, j), b \in HeaderRowsOf(p, k) : a < b
            /\ {i \in At(p, "tr") : p[i].ty = "open"}
                  = UNION {HeaderRowsOf(p, k) : k \in 1..5}
            /\ HeaderRowsOf(p, 1) # {} <=> strip(TextOf(cfg.pre_header_text)) # <<>>
            /\ HeaderRowsOf(p, 2) # {} <=> Truthy(HeaderImageSrc(cfg))
            /\ HeaderRowsOf(p, 5) # {} <=> strip(TextOf(cfg.header_text)) # <<>>

C17_Witness ==
    /\ Returned("_generate_header_html")
    /\ \A k \in 1..5 : Cardinality(HeaderRowsOf(ret.parts, k)) = 1
    /\ HeaderRowsOf(ret.parts, 2) = {6}
    /\ HeaderRowsOf(ret.parts, 3) = {11}

\* the header rows with nothing optional
C17_WitnessSpacerOnly ==
    /\ Returned("_generate_header_html")
    /\ call.subject = PyStr(<<>>)
    /\ Len(ret.parts) = 5
    /\ HeaderRowsOf(ret.parts, 3) = {1}

HeaderTitles(parts) == RolePos(parts, "header-title") \cap At(parts, "h1")

BlankTitle(header_config) == strip(TextOf(header_config.header_title)) = <<>>

\* C18 as stated: whenever the header title is blank after trimming the
\* title row renders the document subject, and whenever it is not the title
\* row renders the trimmed header title.
C18_TitleOrSubject ==
    Returned("_generate_header_html") =>
        LET p == ret.parts
            cfg == call.header_config
        IN  /\ Cardinality(HeaderTitles(p)) = 1
            /\ \A i \in HeaderTitles(p) :
                  p[i].val = IF BlankTitle(cfg) THEN call.subject.v
                             ELSE strip(cfg.header_title.v)

\* C18 amended: a non-blank header title is rendered trimmed in the one
\* title row; a blank one is replaced by the document subject, and when the
\* subject is empty as well the header has no title row.
C18_TitleOrSubjectIfAny ==
    Returned("_generate_header_html") =>
        LET p == ret.parts
            cfg == call.header_config
            title == IF BlankTitle(cfg) THEN call.subject.v
                     ELSE strip(cfg.header_title.v)
        IN  /\ Cardinality(HeaderTitles(p)) = IF title = <<>> THEN 0 ELSE 1
            /\ HeaderTitles(p) = {} <=> HeaderRowsOf(p, 4) = {}
            /\ \A i \in HeaderTitles(p) : p[i].val = title

C18_Witness ==
    /\ Returned("_generate_header_html")
    /\ call.header_config.header_title = PyStr(<<" ">>)
    /\ call.subject = PyStr(SUBJECT)
    /\ \E i \in HeaderTitles(ret.parts) : ret.parts[i].val = SUBJECT

\* how often name is in the list load_templates returned
TimesListed(names, name) == Cardinality({i \in DOMAIN names : names[i] = name})

\* the documents of the other names, in their order
Others(templates, name) == SelectSeq(templates, LAMBDA d : d.name # name)

\* after a save that returned True: one document of that name, the saved
\* one, in the place of the one that was there (or added when none was),
\* and the other documents as before
SaveReplaces ==
    (store_call.op = "save_template" /\ store_call.ok) =>
        LET doc == store_call.doc[1]
            before == store_call.before
        IN  /\ find_one(mongo.templates, doc.name) = <<doc>>
            /\ Cardinality(Matching(mongo.templates, doc.name)) = 1
            /\ Len(mongo.templates) =
                  Len(before) + (IF Matching(before, doc.name) = {} THEN 1 ELSE 0)
            /\ Others(mongo.templates, doc.name) = Others(before, doc.name)

C19_WitnessLoad ==
    /\ store_call.op = "load_template_data"
    /\ store_call.reached
    /\ store_call.found # <<>>
    /\ Len(mongo.templates) = 2

\* what a delete_template that reached the server leaves
DeleteRemoves ==
    LET name == store_call.name
        before == store_call.before
    IN  /\ Others(mongo.templates, name) = Others(before, name)
        /\ Len(mongo.templates) = Len(before) - (IF store_call.ok THEN 1 ELSE 0)
        /\ find_one(mongo.templates, name) = <<>>
        /\ TimesListed(find_names(mongo.templates), name) = 0

ConvertedUpload ==
    /\ pc = "called" /\ call.op = "upload"
    /\ call.image_source = UPLOAD_IMAGE
    /\ call.image_file.ty = "UploadedFile"
    /\ ~call.image_file.fails

TransparentModes == {"RGBA", "LA", "P"}

\* C22: an uploaded image that is PNG by its declared MIME type or by its
\* decoded format is encoded as a data:image/png URI, saved in one of the
\* modes RGBA, LA and P, and in its own mode when that is one of them; any
\* other image is saved in mode RGB as a data:image/jpeg URI.  The URI is
\* the source of the image the section renders.
C22_PngKeepsTransparency ==
    ConvertedUpload =>
        LET f == call.image_file
            uri == convert_to_base64(f)
            detected == f.type \in {"image/png", "image/PNG"} \/ f.format = "PNG"
        IN  /\ uri.ty = "str"
            /\ Len(uri.v) = 2
            /\ IF detected
               THEN /\ uri.v[1] = "data:image/png;base64,"
                    /\ uri.v[2] \in TransparentModes
                    /\ f.mode \in TransparentModes => uri.v[2] = f.mode
               ELSE uri.v = <<"data:image/jpeg;base64,", "RGB">>
            /\ ret.exc = "none"
            /\ \E i \in At(SectionFragment, "img") : SectionFragment[i].val = uri.v

\* a PNG with an alpha channel whose name and MIME type say JPEG
C22_Witness ==
    /\ ConvertedUpload
    /\ call.image_file = UploadedFile("image/jpeg", "PNG", "LA", FALSE)
    /\ \E i \in At(SectionFragment, "img") :
          SectionFragment[i].val = <<"data:image/png;base64,", "LA">>

\* a greyscale JPEG
C22_WitnessJpeg ==
    /\ ConvertedUpload
    /\ call.image_file = UploadedFile("image/jpeg", "JPEG", "L", FALSE)
    /\ \E i \in At(SectionFragment, "img") :
          SectionFragment[i].val = <<"data:image/jpeg;base64,", "RGB">>

\* html.escape: the text with & < > replaced by their entities
RECURSIVE escape(_)
escape(s) ==
    IF s = <<>> THEN <<>>
    ELSE (CASE Head(s) = "&" -> <<"&amp;">>
            [] Head(s) = "<" -> <<"&lt;">>
            [] Head(s) = ">" -> <<"&gt;">>
            [] OTHER -> <<Head(s)>>) \o escape(Tail(s))

HasMarkup(text) == Contains(text, "<") /\ Contains(text, ">")

ContentTokens(parts) == RolePos(parts, "content") \ At(parts, "div")

\* C23: layer body content without markup is emitted inside a <p> as
\* escaped plain text (a lone < or & becomes an entity) with every newline
\* replaced by <br>; content with markup is emitted verbatim inside a <div>.
C23_PlainTextEscaped ==
    (Returned("_generate_layer_html") /\ Truthy(call.layers[1].content)) =>
        LET content == call.layers[1].content.v
            p == ret.parts
            toks == ContentTokens(p)
        IN  /\ Cardinality(toks) = 1
            /\ \A i \in toks :
                  IF HasMarkup(content)
                  THEN /\ p[i].ty = "raw" /\ p[i].val = content
                       /\ p[i - 1] = Open("div", "content")
                       /\ p[i + 1] = Close("div")
                  ELSE /\ p[i].el = "p"
                       /\ p[i].val = replace(escape(content), NL, BR)

\* what the engine emits: the plain text as it is, newlines replaced, nothing
\* escaped
C23_PlainTextUnescaped ==
    (Returned("_generate_layer_html") /\ Truthy(call.layers[1].content)) =>
        LET content == call.layers[1].content.v
            p == ret.parts
            toks == ContentTokens(p)
        IN  /\ Cardinality(toks) = 1
            /\ \A i \in toks :
                  IF HasMarkup(content)
                  THEN /\ p[i].ty = "raw" /\ p[i].val = content
                       /\ p[i - 1] = Open("div", "content")
                       /\ p[i + 1] = Close("div")
                  ELSE /\ p[i].el = "p"
                       /\ p[i].val = replace(content, NL, BR)

\* the number of the form a layer dict came from
SlotOf(layer) == CHOOSE i \in 1..MaxForms : layer.title.v = SlotTitle(i)

\* the list is in ascending order, layers of one order in form order
TiesInFormOrder(layers) ==
    \A k, l \in DOMAIN layers :
        k < l =>
            \/ OrderOf(layers[k]) < OrderOf(layers[l])
            \/ /\ OrderOf(layers[k]) = OrderOf(layers[l])
               /\ SlotOf(layers[k]) < SlotOf(layers[l])

FormDocument(ss) ==
    generate_html(ss.email_subject, render_header_config(ss),
                  sorted_layers(FormLayers(ss)), render_footer_config(ss),
                  FormSubscription(ss), PyInt(1000), DefaultFont)

\* C24 as stated: when layers have duplicate order values, a press of
\* Generate warns but still renders the newsletter, the layers that share an
\* order in their form order.
C24_DuplicatesStillRender ==
    (run.event = "generate" /\ HasDuplicateOrder(session_state)) =>
        /\ run.error
        /\ run.called
        /\ TiesInFormOrder(sorted_layers(FormLayers(session_state)))
        /\ session_state.newsletter_html = PyHtml(FormDocument(session_state).parts)

\* C24 amended: when layers have duplicate order values every run reports
\* the error and no run calls generate_html, so no newsletter is rendered;
\* the layer list main keeps is sorted all the same, the layers that share
\* an order in their form order.
C24_DuplicatesSortedNotRendered ==
    HasDuplicateOrder(session_state) =>
        /\ run.error
        /\ ~run.called
        /\ TiesInFormOrder(sorted_layers(FormLayers(session_state)))
        /\ Len(sorted_layers(FormLayers(session_state))) = session_state.num_layers

\* Generate pressed on three layers of orders 2, 1, 2
C24_Witness ==
    /\ run.event = "generate"
    /\ session_state.num_layers = 3
    /\ session_state.layer_order = <<2, 1, 2>>
    /\ run.error /\ ~run.called
    /\ LET layers == sorted_layers(FormLayers(session_state))
       IN  <<SlotOf(layers[1]), SlotOf(layers[2]), SlotOf(layers[3])>> = <<2, 1, 3>>

\* the source the layer's image resolves to (URL first, trimmed)
ResolvedLayerSrc(layer) ==
    IF layer.image_url.ty = "str" /\ strip(layer.image_url.v) # <<>>
    THEN strip(layer.image_url.v) ELSE layer.image_base64.v

LayerImages(parts) == At(parts, "img")

\* C27: every layer whose image source resolves to a non-empty value
\* renders exactly one <img>, with that source, whatever the value of
\* image_alignment is.
C27_ImageForEveryAlignment ==
    (Returned("_generate_layer_html") /\ ResolvedLayerImage(call.layers[1])) =>
        /\ Cardinality(LayerImages(ret.parts)) = 1
        /\ \A i \in LayerImages(ret.parts) :
              ret.parts[i].val = ResolvedLayerSrc(call.layers[1])

\* what the engine does: the image is rendered, once, when the alignment is
\* left or right in any case (or missing, which is left), and not at all
\* for another alignment
C27_ImageForLeftOrRightOnly ==
    (Returned("_generate_layer_html") /\ ResolvedLayerImage(call.layers[1])) =>
        LET layer == call.layers[1]
            known == layer.image_alignment = Missing
                        \/ lower(layer.image_alignment.v) \in {LEFT, RIGHT}
        IN  /\ Cardinality(LayerImages(ret.parts)) = IF known THEN 1 ELSE 0
            /\ \A i \in LayerImages(ret.parts) :
                  ret.parts[i].val = ResolvedLayerSrc(layer)

\* the elements whose tags the engine opens and closes in separate parts
StructuralElements == {"table", "tr", "td", "div", "a"}

Opens(parts, el) == {i \in At(parts, el) : parts[i].ty = "open"}
Closes(parts, el) == {i \in At(parts, el) : parts[i].ty = "close"}

\* the engine's own tags of the structural elements nest properly:
\* reading the parts in order with a stack of the open elements, every
\* closing tag closes the innermost open element and nothing stays open
RECURSIVE Nested(_, _)
Nested(parts, stack) ==
    IF parts = <<>> THEN stack = <<>>
    ELSE LET t == Head(parts)
         IN  IF t.el \notin StructuralElements \/ t.ty \notin {"open", "close"}
             THEN Nested(Tail(parts), stack)
             ELSE IF t.ty = "open"
             THEN Nested(Tail(parts), <<t.el>> \o stack)
             ELSE /\ stack # <<>>
                  /\ Head(stack) = t.el
                  /\ Nested(Tail(parts), Tail(stack))

\* every anchor opened at i is closed before the next closing </td>
AnchorsClosedInCell(parts) ==
    \A i \in Opens(parts, "a") :
        \E j \in Closes(parts, "a") :
            /\ j > i
            /\ \A k \in Closes(parts, "td") : ~(i < k /\ k < j)

EmitsFragment ==
    /\ pc = "called"
    /\ ret.exc = "none"
    /\ call.op \in {"generate_html", "_generate_layer_html", "_generate_header_html",
                    "_generate_footer_html", "_generate_subscription_html"}

\* C28: in every fragment the engine returns, the opening and the closing
\* tags it emits itself for table, tr, td, div and a are equal in number,
\* and every anchor opened inside a cell is closed before that cell is
\* closed (the tags nest properly).
C28_TagsBalanced ==
    EmitsFragment =>
        /\ \A el \in StructuralElements :
              Cardinality(Opens(ret.parts, el)) = Cardinality(Closes(ret.parts, el))
        /\ AnchorsClosedInCell(ret.parts)
        /\ Nested(ret.parts, <<>>)

\* a whole document with a linked layer that has an image, a footer with a
\* linked image and the table of the social icons, and the subscription
\* section
C28_Witness ==
    /\ Returned("generate_html")
    /\ Cardinality(Opens(ret.parts, "a")) >= 3
    /\ Cardinality(Opens(ret.parts, "table")) >= 5
    /\ Cardinality(Opens(ret.parts, "div")) >= 2

\* a linked layer with its image on the right: an anchor in each cell
C28_WitnessLayer ==
    /\ Returned("_generate_layer_html")
    /\ Cardinality(Opens(ret.parts, "a")) = 2
    /\ RolePos(ret.parts, "image-cell-right") # {}

\* the embedded image the session holds for the section's slot after the
\* run (the URL text plays no part in upload mode)
StoredAfterRun ==
    CASE call.section = "header" ->
            HeaderImageFields(call.image_source, PyStr(<<>>), call.existing_base64,
                              call.image_file).stored
      [] call.section = "layer" ->
            LayerImageFields(call.image_source, PyStr(<<>>), call.existing_base64,
                             call.image_file).stored
      [] call.section = "footer" ->
            FooterImageFields(call.image_source, PyStr(<<>>), call.existing_base64,
                              call.image_file).stored

\* C29: when the conversion of a newly uploaded file fails, the embedded
\* image the session held for that slot before the run is still there
\* after it, for the header image, the footer image and a layer image
\* alike.
C29_FailedUploadKeepsStored ==
    FailedUpload => StoredAfterRun = call.existing_base64

\* what the forms do: the layer form keeps the stored image (lines
\* 2151-2158), the header and footer forms store the None of the failed
\* conversion over it (lines 1139-1143, 1385-1389)
C29_OnlyLayerKeepsStored ==
    FailedUpload =>
        StoredAfterRun = IF call.section = "layer" THEN call.existing_base64 ELSE None

\* the run that followed a successful press of "Load Template"
TemplateLoaded == run.event = "load_template" /\ run.called

\* the stored template the press loaded
LoadedTemplate == find_one(mongo.templates, run.value.v[1])[1]

\* the document Generate makes of a template's dicts, with the styling of
\* its header
StyledDocument(config, header_config, layers, footer_config, subscription_config) ==
    [html |-> generate_html(config.email_subject, header_config, layers, footer_config,
                            subscription_config, config.max_width, config.font_family),
     header_style |-> HeaderStyle(header_config)]

StyledFormDocument(ss) ==
    StyledDocument(render_sidebar(ss), render_header_config(ss),
                   sorted_layers(FormLayers(ss)), render_footer_config(ss),
                   FormSubscription(ss))

\* C25: after a template that was saved from the form is loaded, the form
\* holds every saved header field again, the title's color, font size and
\* bold and the text's color and font size included, and the document
\* generated from the form is the one the saved form generated.
C25_LoadRestoresHeader ==
    TemplateLoaded =>
        LET saved == LoadedTemplate
        IN  /\ \A k \in StyleKeys :
                  render_header_config(session_state)[k] = saved.header_config[k]
            /\ StyledFormDocument(session_state) =
                  StyledDocument(saved.config, saved.header_config, saved.layers,
                                 saved.footer_config, saved.subscription_config)

\* what the loader does: a press of "Load Template" leaves the five styling
\* widgets of the header as they are, whatever the template stores
C25_LoadKeepsStyling ==
    [][run'.event = "load_template" =>
          \A w \in StyleWidgets : session_state'[w] = session_state[w]]_vars

\* the template's name, the sidebar and the rest of the document are restored
C25_LoadRestoresTheRest ==
    TemplateLoaded =>
        LET saved == LoadedTemplate
        IN  /\ session_state.loaded_template_name = <<saved.name>>
            /\ render_sidebar(session_state) = saved.config
            /\ FormDocument(session_state) =
                  generate_html(saved.config.email_subject, saved.header_config,
                                saved.layers, saved.footer_config,
                                saved.subscription_config, saved.config.max_width,
                                saved.config.font_family)

\* the sources of the images in the header that is made of header_config
HeaderImagesOf(header_config) ==
    LET parts == _generate_header_html(PyStr(SUBJECT), header_config).parts
    IN  {parts[i].val : i \in At(parts, "img")}

\* C26: after a template is loaded, the image the header is rendered with is
\* the one the template stores; when the template stores no image, or a URL
\* only, no embedded image that the session held before is rendered.
C26_LoadedImageRendered ==
    TemplateLoaded =>
        HeaderImagesOf(render_header_config(session_state))
            = HeaderImagesOf(LoadedTemplate.header_config)

\* what the loader does for a template without a header image: the image
\* fields of the session stay as they were
C26_NoImageKeepsSession ==
    [][(run'.event = "load_template" /\ run'.called
           /\ HeaderImagesOf(find_one(mongo.templates,
                                      run'.value.v[1])[1].header_config) = {})
          => /\ session_state'.header_image_base64 = HeaderRun(session_state).header_image_base64
             /\ session_state'.header_image_source = session_state.header_image_source]_vars

\* a template that stores a URL is rendered with that URL
C26_StoredUrlRendered ==
    (TemplateLoaded /\ Truthy(LoadedTemplate.header_config["header_image_url"])) =>
        HeaderImagesOf(render_header_config(session_state))
            = {LoadedTemplate.header_config["header_image_url"].v}

\* the second half of C26 alone: a template that stores no embedded image
\* for the header is rendered without one
C26_NoStaleEmbeddedImage ==
    (TemplateLoaded /\ ~Truthy(LoadedTemplate.header_config["header_image_base64"])) =>
        ~Truthy(render_header_config(session_state)["header_image_base64"])

\* the names of the templates a step removes from the collection
DeletedNames ==
    {name \in TemplateNames :
        Cardinality(Matching(mongo'.templates, name))
            < Cardinality(Matching(mongo.templates, name))}

\* C30: a template is deleted only by a press of Confirm Delete that ends
\* the sequence Delete Template pressed, confirmation ticked, made for that
\* template while it stayed selected; no other template is deleted with it,
\* and Cancel clears the pending confirmation and deletes nothing.
C30_DeletedOnlyAfterSequence ==
    [][/\ DeletedNames # {} =>
            /\ run'.event = "confirm_delete"
            /\ run.flow = "ticked"
            /\ DeletedNames = {session_state.template_selectbox}
            /\ session_state.template_to_delete = <<session_state.template_selectbox>>
       /\ run'.event = "cancel_delete" =>
            /\ ~session_state'.show_delete_confirmation
            /\ session_state'.template_to_delete = <<>>
            /\ mongo'.templates = mongo.templates]_vars

\* what the code guarantees: a template is deleted only by a press of
\* Confirm Delete while the dialog for the selected template is shown and
\* its checkbox is ticked, and only that template goes; Delete Template may
\* have been pressed before the selection was changed and changed back
C30_DeletedOnlyConfirmed ==
    [][DeletedNames # {} =>
            /\ run'.event = "confirm_delete"
            /\ DialogShown(session_state)
            /\ session_state.delete_confirmation_checkbox
            /\ DeletedNames = {session_state.template_selectbox}
            /\ mongo'.templates
                  = delete_one(mongo.templates, session_state.template_selectbox)]_vars

C30_CancelDeletesNothing ==
    [][run'.event = "cancel_delete" =>
            /\ ~session_state'.show_delete_confirmation
            /\ session_state'.template_to_delete = <<>>
            /\ ~session_state'.delete_confirmation_checkbox
            /\ mongo'.templates = mongo.templates]_vars

\* a pending confirmation outlives a change of the selection
C30_PendingIsForSelected ==
    session_state.show_delete_confirmation =>
        session_state.template_to_delete = <<session_state.template_selectbox>>
====
